---- MODULE Spec2Model ----
(***************************************************************************)
(* A model of the layered-graph-drawing core of trellis: the RampTable     *)
(* graph representation, topo_sort_reverse / topo_sort, create_layer_map,  *)
(* create_proper_graph (layering, proper graph, crossing sweeps) and       *)
(* find_disjoint_subgraphs.                                                *)
(*                                                                         *)
(* Vertices, layers and keys are 0-based as in the source.  A Rust Vec is  *)
(* a TLA+ sequence, so element k of a Vec is element k+1 of the sequence;  *)
(* a Vec indexed by vertex (visited, v_layer, v_pos ...) is a function on  *)
(* 0..n-1.                                                                 *)
(***************************************************************************)
EXTENDS Integers, Sequences, FiniteSets, TLC

\* ------------------------------------------------------------------------
\* Bounds of the explored inputs
\* ------------------------------------------------------------------------
MaxVerts == 3

MaxEdges == 3

\* the family of acyclic graphs on which the layering grows long edges
AcMaxVerts == 4

AcMaxEdges == 4

\* the wider family of graphs on which find_disjoint_subgraphs links one
\* provisional subgraph to two others
DjMaxVerts == 3

DjMaxEdges == 5

\* RampTable: the number of operations applied to one table and the longest
\* slice handed to push_entry_copy
RtMaxOps == 5

RtMaxLen == 2

\* RampTable: the number of writes through the mutable slices it hands out
RtMaxWrites == 1

\* RampTableBuilder: the highest key and the number of pushes
RbMaxKey == 2

RbMaxItems == 4

\* RampTableBuilder: the longest run of pairs handed to one call of extend
RbMaxExtend == 2

\* VecOption: the number of operations applied to one vector, and the highest
\* value an uninitialized slot may happen to hold
VoMaxOps == 4

VoMaxUninit == 1

\* VecOption: the longest vector handed to from_vec or from_iter, or asked of
\* new_repeat_none
VoMaxInit == 2

\* find_disjoint_subgraphs on graphs whose vertices may start their out-list
\* with a self-loop: the vertices, and the edges beside the self-loops
AlMaxVerts == 3

AlMaxExtra == 2

\* min_crossings_core: the vertices of the two layers and the edges between
\* them
CoreMaxVerts == 4

CoreMaxEdges == 3

\* PQ: the items that can be inserted are 1..PqMaxItem, and the number of
\* insert and remove calls on one queue
PqMaxItem == 4

PqMaxOps == 5

\* ------------------------------------------------------------------------
\* Program constants
\* ------------------------------------------------------------------------
\* !0u32 (all bits set, 2^32 - 1) is written as its two's-complement reading
\* -1: it is only ever compared for equality with vertex, subgraph and
\* position numbers, which are far below 2^31.
NO_GRAPH == -1

NO_POS == -1

\* ------------------------------------------------------------------------
\* Generic helpers
\* ------------------------------------------------------------------------
Range(s) == { s[i] : i \in DOMAIN s }

MaxOf(S) == CHOOSE x \in S : \A y \in S : y <= x

RECURSIVE SumSeq(_)
SumSeq(s) == IF s = <<>> THEN 0 ELSE s[1] + SumSeq(Tail(s))

Reverse(s) == [i \in 1..Len(s) |-> s[Len(s) + 1 - i]]

\* Vec::sort_by_key is a stable sort.  The elements are given as
\* <<key, item>> pairs; each is inserted after the last element whose key
\* is not greater.
\* InsertByKey that puts x before the elements of equal key
RECURSIVE InsertByKey_BeforeEqual(_, _)
InsertByKey_BeforeEqual(sorted, x) ==
    IF sorted = <<>> THEN <<x>>
    ELSE IF sorted[Len(sorted)][1] < x[1] THEN Append(sorted, x)
    ELSE Append(InsertByKey_BeforeEqual(SubSeq(sorted, 1, Len(sorted) - 1), x),
                sorted[Len(sorted)])

RECURSIVE InsertByKey(_, _)
InsertByKey(sorted, x) ==
    IF sorted = <<>> THEN <<x>>
    ELSE IF sorted[Len(sorted)][1] <= x[1] THEN Append(sorted, x)
    ELSE Append(InsertByKey(SubSeq(sorted, 1, Len(sorted) - 1), x),
                sorted[Len(sorted)])

RECURSIVE SortByKeyFrom(_, _)
SortByKeyFrom(acc, s) ==
    IF s = <<>> THEN acc
    ELSE SortByKeyFrom(InsertByKey(acc, s[1]), Tail(s))

sort_by_key(s) == SortByKeyFrom(<<>>, s)

\* ------------------------------------------------------------------------
\* RampTable (ramp_table.rs)
\* ------------------------------------------------------------------------
RampTable_new == [index |-> <<0>>, values |-> <<>>]

num_keys(t) == Len(t.index) - 1

num_values(t) == Len(t.values)

push_value(t, value) == [t EXCEPT !.values = Append(@, value)]

finish_key(t) == [t EXCEPT !.index = Append(@, Len(t.values))]

\* finish_key_ret taken after the push onto index
finish_key_ret_After(t) == Len(t.index)

\* the key that finish_key returns
finish_key_ret(t) == Len(t.index) - 1

RampTable_clear(t) == [index |-> <<0>>, values |-> <<>>]

push_entry_copy(t, values) ==
    finish_key([t EXCEPT !.values = @ \o values])

entry_values(t, k) == SubSeq(t.values, t.index[k + 1] + 1, t.index[k + 2])

\* iter_pairs: the slices of iter() enumerated from 0, each value with the
\* number of its slice
RECURSIVE PairsFrom(_, _)
PairsFrom(t, k) ==
    IF k >= num_keys(t) THEN <<>>
    ELSE [i \in 1..Len(entry_values(t, k)) |-> <<k, entry_values(t, k)[i]>>]
             \o PairsFrom(t, k + 1)

iter_pairs(t) == PairsFrom(t, 0)

\* iter_pairs_manual: the state of Pairs at its construction; value_iter and
\* index_iter are the numbers of items the two slice iterators have yielded
Pairs_new ==
    [value_iter |-> 0, index_iter |-> 0, current_key |-> 0,
     current_index |-> 0, num_values |-> 0, ok |-> TRUE]

\* the while loop of Pairs::next; ok is FALSE when index_iter.next().unwrap()
\* panics
RECURSIVE Pairs_find_key(_, _)
Pairs_find_key(t, st) ==
    IF st.num_values # 0 THEN st
    ELSE IF st.index_iter >= Len(t.index) THEN [st EXCEPT !.ok = FALSE]
    ELSE LET next_index == t.index[st.index_iter + 1]
         IN  Pairs_find_key(t, [st EXCEPT
                                   !.index_iter = @ + 1,
                                   !.num_values = next_index - st.current_index,
                                   !.current_index = next_index,
                                   !.current_key = @ + 1])

\* the items Pairs yields from the state st on, and whether it ends without
\* a panic
RECURSIVE Pairs_collect(_, _)
Pairs_collect(t, st) ==
    IF st.value_iter >= Len(t.values) THEN [pairs |-> <<>>, ok |-> TRUE]
    ELSE LET found == Pairs_find_key(t, [st EXCEPT !.value_iter = @ + 1])
             rest == Pairs_collect(t, [found EXCEPT !.num_values = @ - 1])
         IN  IF ~found.ok THEN [pairs |-> <<>>, ok |-> FALSE]
             ELSE [pairs |-> << <<found.current_key,
                                  t.values[st.value_iter + 1]>> >> \o rest.pairs,
                   ok |-> rest.ok]

iter_pairs_manual(t) == Pairs_collect(t, Pairs_new)

\* RampTableBuilder::finish: stable sort of the (key, value) items by key,
\* then one finish_key per skipped key and a final fill up to max key + 1.
RECURSIVE FinishKeysUpTo(_, _)
FinishKeysUpTo(t, n) ==
    IF num_keys(t) < n THEN FinishKeysUpTo(finish_key(t), n) ELSE t

RECURSIVE BuilderFill(_, _)
BuilderFill(t, items) ==
    IF items = <<>> THEN t
    ELSE BuilderFill(push_value(FinishKeysUpTo(t, items[1][1]), items[1][2]),
                     Tail(items))

RampTableBuilder_finish(items) ==
    LET sorted == sort_by_key(items)
    IN  IF sorted = <<>> THEN RampTable_new
        ELSE FinishKeysUpTo(BuilderFill(RampTable_new, sorted),
                            sorted[Len(sorted)][1] + 1)

\* ------------------------------------------------------------------------
\* Graph (graph.rs): a RampTable of out-neighbour lists
\* ------------------------------------------------------------------------
num_verts(g) == num_keys(g)

num_edges(g) == num_values(g)

edges_from(g, from) == entry_values(g, from)

\* (from, to) pairs in from-ascending, then stored, order
iter_edges_flattened(g) ==
    [e \in 1..num_edges(g) |->
        <<CHOOSE f \in 0..(num_verts(g) - 1) :
              g.index[f + 1] < e /\ e <= g.index[f + 2],
          g.values[e]>>]

\* assert_graph_is_well_formed: walks iter_from_edges, that is the values
\* that belong to a key; values pushed after the last finished key are not
\* looked at
WellFormed(g) ==
    \A f \in 0..(num_verts(g) - 1) :
        \A e \in (g.index[f + 1] + 1)..g.index[f + 2] :
            g.values[e] < num_verts(g)

IndexSeqs(nv, k) ==
    { s \in [1..(nv + 1) -> 0..k] :
        /\ s[1] = 0
        /\ s[nv + 1] = k
        /\ \A i \in 1..nv : s[i] <= s[i + 1] }

GraphsWith(nv, k) ==
    { [index |-> idx, values |-> vals] :
        idx \in IndexSeqs(nv, k), vals \in [1..k -> 0..(nv - 1)] }

\* every well-formed graph without unassociated values, up to the bounds
Graphs(maxv, maxe) ==
    UNION { GraphsWith(nv, k) : nv \in 0..maxv, k \in 0..maxe }

\* the graphs of GraphsWith(nv, k) whose edges all lead from a vertex to a
\* vertex of higher index; they have no cycle
ForwardGraphsWith(nv, k) ==
    UNION { { [index |-> idx, values |-> vals] :
                vals \in { f \in [1..k -> 0..(nv - 1)] :
                             \A e \in 1..k : \A x \in 0..(nv - 1) :
                                 (idx[x + 1] < e /\ e <= idx[x + 2]) => x < f[e] } } :
            idx \in IndexSeqs(nv, k) }

ForwardGraphs(maxv, maxe) ==
    UNION { ForwardGraphsWith(nv, k) : nv \in 0..maxv, k \in 0..maxe }

\* ------------------------------------------------------------------------
\* Graph::transpose (graph.rs lines 72-111)
\* ------------------------------------------------------------------------
\* !0u32, written as -1 like NO_GRAPH
PLACEHOLDER == -1

\* t_index_count without the shift by one
t_index_count_NoShift(g) ==
    [i \in 1..(num_keys(g) + 1) |->
        Cardinality({ e \in 1..Len(g.values) : g.values[e] + 1 = i })]

\* lines 76-81: t_index[to + 1] += 1 for every value `to`
t_index_count(g) ==
    [i \in 1..(num_keys(g) + 1) |->
        Cardinality({ e \in 1..Len(g.values) : g.values[e] + 2 = i })]

\* lines 83-88: the running sum, in place
integrate(s) == [i \in 1..Len(s) |-> SumSeq(SubSeq(s, 1, i))]

\* lines 94-103: every edge from -> to is written to the next free slot of
\* `to`; st is [counts, t_values, ok], ok is FALSE once the slot is out of
\* bounds or assert_eq!(*t_values_ptr, PLACEHOLDER) fails
RECURSIVE transpose_scatter(_, _, _, _)
transpose_scatter(st, t_index, edges, e) ==
    IF e > Len(edges) \/ ~st.ok THEN st
    ELSE LET from == edges[e][1]
             to == edges[e][2]
             slot == t_index[to + 1] + st.counts[to + 1]
         IN  IF slot >= Len(st.t_values) \/ st.t_values[slot + 1] # PLACEHOLDER
             THEN [st EXCEPT !.ok = FALSE]
             ELSE transpose_scatter(
                      [counts |-> [st.counts EXCEPT ![to + 1] = @ + 1],
                       t_values |-> [st.t_values EXCEPT ![slot + 1] = from],
                       ok |-> TRUE],
                      t_index, edges, e + 1)

\* the transposed graph, with ok = FALSE when the call panics
transpose(g) ==
    LET t_index == integrate(t_index_count(g))
        st == transpose_scatter(
                  [counts |-> [i \in 1..num_keys(g) |-> 0],
                   t_values |-> [i \in 1..num_values(g) |-> PLACEHOLDER],
                   ok |-> TRUE],
                  t_index, iter_edges_flattened(g), 1)
    IN  [ok |-> st.ok, graph |-> [index |-> t_index, values |-> st.t_values]]

VARIABLES
    fn,                  \* the function that is running; when
                         \* topo_sort_reverse returns, its caller
    graph,               \* its argument
    pc,                  \* position in the running function
    result,              \* "none" while running, then "Ok" or "Err"
    \* topo_sort_reverse
    source, visited, topo_order, work_stack, in_work_set, v, v_edges,
    order,               \* the Vec returned by topo_sort
    \* layering
    li, v_layer, max_layer, num_layers, layer_verts_builder,
    \* proper graph
    ei, next_virt_v, layer_edges_builder, layer_edges, layer_verts, v_pos,
    \* crossing sweeps
    sweep_layer,
    sweeps,              \* the boundaries handed to min_crossings_core so far
    sweep_calls,         \* the sweeps called so far
    num_crossings,       \* num_crossings_before and _after of the sweeps so far
    \* find_disjoint_subgraphs
    gi, v_graph, graph_alias, remap, num_subgraphs, subgraphs,
    \* Graph::transpose
    transposed,          \* the graphs returned by the calls so far
    \* one RampTable under a sequence of operations
    table,
    rt_op,               \* the last operation
    rt_ret,              \* what the last finish_key returned
    rt_ops,              \* the number of operations so far
    rt_next,             \* the next value to push; every value is new
    rt_pending,          \* the values pushed since the last finish_key or clear
    rt_entries,          \* per key since the last clear, the values pushed for
                         \* it, each with the last value written over it
    rt_writes,           \* the number of writes through mutable slices so far
    \* RampTableBuilder
    builder_items,       \* RampTableBuilder.items
    \* one VecOption under a sequence of operations, next to a Vec<Option<T>>
    vec_option,
    vo_before,           \* the VecOption before the last operation
    shadow,              \* the Vec<Option<T>> under the same operations
    vo_op,               \* the last operation
    vo_ret,              \* what it returned
    shadow_ret,          \* what the Vec<Option<T>> returned
    vo_ops,              \* the number of operations so far
    vo_clone,            \* what the last clone() returned
    \* min_crossings_core
    old_v_pos,           \* v_pos at the call
    core_edges,          \* its edges argument, as passed
    \* one PQ under a sequence of insert and remove calls
    pq,                  \* PQ.pq
    pq_before,           \* PQ.pq before the last call
    pq_op,               \* the last call
    pq_ret,              \* what the last remove returned
    pq_ops,              \* the number of calls so far
    pq_panic             \* TRUE once an assertion of check() has failed

topoVars == <<source, visited, topo_order, work_stack, in_work_set, v, v_edges>>

layerVars == <<li, v_layer, max_layer, num_layers, layer_verts_builder>>

properVars == <<ei, next_virt_v, layer_edges_builder, layer_edges, layer_verts, v_pos>>

sweepVars == <<sweep_layer, sweeps, sweep_calls, num_crossings>>

djVars == <<gi, v_graph, graph_alias, remap, num_subgraphs, subgraphs>>

\* the state of the data-structure operations
rtVars == <<table, rt_op, rt_ret, rt_ops, rt_next, rt_pending, rt_entries,
            rt_writes>>

builderVars == <<builder_items>>

voVars == <<vec_option, vo_before, shadow, vo_op, vo_ret, shadow_ret, vo_ops,
            vo_clone>>

coreVars == <<old_v_pos, core_edges>>

pqVars == <<pq, pq_before, pq_op, pq_ret, pq_ops, pq_panic>>

libVars == <<transposed, rtVars, builderVars, voVars, coreVars, pqVars>>

vars == <<fn, graph, pc, result, topoVars, order, layerVars, properVars,
          sweepVars, djVars, libVars>>

nv == num_verts(graph)

Verts == 0..(nv - 1)

\* the locals of every function before it has run
InitLocals ==
    /\ result = "none"
    /\ source = 0
    /\ visited = <<>>
    /\ topo_order = <<>>
    /\ work_stack = <<>>
    /\ in_work_set = <<>>
    /\ v = 0
    /\ v_edges = 0
    /\ order = <<>>
    /\ li = 0
    /\ v_layer = <<>>
    /\ max_layer = 0
    /\ num_layers = 0
    /\ layer_verts_builder = <<>>
    /\ ei = 0
    /\ next_virt_v = 0
    /\ layer_edges_builder = <<>>
    /\ layer_edges = RampTable_new
    /\ layer_verts = RampTable_new
    /\ v_pos = <<>>
    /\ sweep_layer = 0
    /\ sweeps = <<>>
    /\ sweep_calls = <<>>
    /\ num_crossings = <<>>
    /\ gi = 0
    /\ v_graph = <<>>
    /\ graph_alias = <<>>
    /\ remap = <<>>
    /\ num_subgraphs = 0
    /\ subgraphs = RampTable_new
    /\ transposed = <<>>
    /\ table = RampTable_new
    /\ rt_op = "new"
    /\ rt_ret = 0
    /\ rt_ops = 0
    /\ rt_next = 0
    /\ rt_pending = <<>>
    /\ rt_entries = <<>>
    /\ rt_writes = 0
    /\ builder_items = <<>>
    /\ vec_option = [vec |-> <<>>, present |-> <<>>, spare |-> <<>>]
    /\ vo_before = [vec |-> <<>>, present |-> <<>>, spare |-> <<>>]
    /\ shadow = <<>>
    /\ vo_op = "new"
    /\ vo_ret = <<>>
    /\ shadow_ret = <<>>
    /\ vo_clone = [vec |-> <<>>, present |-> <<>>, spare |-> <<>>]
    /\ pq = <<>>
    /\ pq_before = <<>>
    /\ pq_op = "new"
    /\ pq_ret = <<>>
    /\ pq_ops = 0
    /\ pq_panic = FALSE
    /\ vo_ops = 0
    /\ old_v_pos = <<>>
    /\ core_edges = <<>>

\* the functions that call topo_sort_reverse
Callers == {"topo_sort", "create_layer_map", "create_proper_graph"}

Init ==
    /\ fn = "topo_sort_reverse"
    /\ graph \in Graphs(MaxVerts, MaxEdges)
    /\ pc = "start"
    /\ InitLocals

\* ------------------------------------------------------------------------
\* topo_sort_reverse (topo_sort.rs)
\* ------------------------------------------------------------------------

\* lines 24-41: allocate visited, topo_order, work_stack, in_work_set
TopoStart ==
    /\ pc = "start"
    /\ fn = "topo_sort_reverse"
    /\ visited' = [x \in Verts |-> FALSE]
    /\ in_work_set' = [x \in Verts |-> FALSE]
    /\ topo_order' = <<>>
    /\ work_stack' = <<>>
    /\ source' = 0
    /\ pc' = "topo_for"
    /\ UNCHANGED <<libVars, fn, graph, result, v, v_edges, order, layerVars,
                   properVars, sweepVars, djVars>>

\* lines 46-61: the for loop skips a visited source and a source without
\* out-edges
TopoSkipSource ==
    /\ pc = "topo_for"
    /\ source < nv
    /\ visited[source] \/ edges_from(graph, source) = <<>>
    /\ source' = source + 1
    /\ UNCHANGED <<libVars, fn, graph, pc, result, visited, topo_order, work_stack,
                   in_work_set, v, v_edges, order, layerVars, properVars,
                   sweepVars, djVars>>

\* TopoStartTraversal without the test for an empty out-edge list
TopoStartTraversal_NoEmptyTest ==
    /\ pc = "topo_for"
    /\ source < nv
    /\ ~visited[source]
    /\ v' = source
    /\ v_edges' = 0
    /\ in_work_set' = [in_work_set EXCEPT ![source] = TRUE]
    /\ pc' = "topo_loop"
    /\ UNCHANGED <<libVars, fn, graph, result, source, visited, topo_order,
                   work_stack, order, layerVars, properVars, sweepVars,
                   djVars>>

\* lines 89-92: a traversal starts at source
TopoStartTraversal ==
    /\ pc = "topo_for"
    /\ source < nv
    /\ ~visited[source]
    /\ edges_from(graph, source) # <<>>
    /\ v' = source
    /\ v_edges' = 0
    /\ in_work_set' = [in_work_set EXCEPT ![source] = TRUE]
    /\ pc' = "topo_loop"
    /\ UNCHANGED <<libVars, fn, graph, result, source, visited, topo_order,
                   work_stack, order, layerVars, properVars, sweepVars,
                   djVars>>

HasNextEdge == v_edges < Len(edges_from(graph, v))

\* next_v for an iterator that runs from the end of the out-list
next_v_FromEnd == edges_from(graph, v)[Len(edges_from(graph, v)) - v_edges]

next_v == edges_from(graph, v)[v_edges + 1]

\* TopoFoundCycle that takes a neighbour on the current path for one that
\* was already seen
TopoFoundCycle_Ignored ==
    /\ pc = "topo_loop"
    /\ v_edges < Len(edges_from(graph, v))
    /\ in_work_set[edges_from(graph, v)[v_edges + 1]]
    /\ v_edges' = v_edges + 1
    /\ UNCHANGED <<libVars, fn, graph, pc, result, source, visited, topo_order,
                   work_stack, in_work_set, v, order, layerVars, properVars,
                   sweepVars, djVars>>

\* lines 101-106: the next out-neighbour is on the current path
TopoFoundCycle ==
    /\ pc = "topo_loop"
    /\ HasNextEdge
    /\ in_work_set[next_v]
    /\ v_edges' = v_edges + 1
    /\ pc' = "topo_err"
    /\ fn' \in Callers
    /\ UNCHANGED <<libVars, graph, result, source, visited, topo_order,
                   work_stack, in_work_set, v, order, layerVars, properVars,
                   sweepVars, djVars>>

\* TopoAlreadySeen that leaves the edge loop (break for continue)
TopoAlreadySeen_Break ==
    /\ pc = "topo_loop"
    /\ HasNextEdge
    /\ ~in_work_set[next_v]
    /\ visited[next_v]
    /\ v_edges' = Len(edges_from(graph, v))
    /\ UNCHANGED <<libVars, fn, graph, pc, result, source, visited, topo_order,
                   work_stack, in_work_set, v, order, layerVars, properVars,
                   sweepVars, djVars>>

\* lines 107-109: the next out-neighbour is already in the output
TopoAlreadySeen ==
    /\ pc = "topo_loop"
    /\ HasNextEdge
    /\ ~in_work_set[next_v]
    /\ visited[next_v]
    /\ v_edges' = v_edges + 1
    /\ UNCHANGED <<libVars, fn, graph, pc, result, source, visited, topo_order,
                   work_stack, in_work_set, v, order, layerVars, properVars,
                   sweepVars, djVars>>

\* lines 110-117: descend into the next out-neighbour
TopoDescend ==
    /\ pc = "topo_loop"
    /\ HasNextEdge
    /\ ~in_work_set[next_v]
    /\ ~visited[next_v]
    /\ work_stack' = Append(work_stack, [v |-> v, v_edges |-> v_edges + 1])
    /\ in_work_set' = [in_work_set EXCEPT ![next_v] = TRUE]
    /\ v' = next_v
    /\ v_edges' = 0
    /\ UNCHANGED <<libVars, fn, graph, pc, result, source, visited, topo_order,
                   order, layerVars, properVars, sweepVars, djVars>>

\* TopoVertexDone without `in_work_set[v] = false`
TopoVertexDone_KeepBit ==
    /\ pc = "topo_loop"
    /\ ~HasNextEdge
    /\ topo_order' = Append(topo_order, v)
    /\ visited' = [visited EXCEPT ![v] = TRUE]
    /\ IF work_stack # <<>>
       THEN /\ v' = work_stack[Len(work_stack)].v
            /\ v_edges' = work_stack[Len(work_stack)].v_edges
            /\ work_stack' = SubSeq(work_stack, 1, Len(work_stack) - 1)
            /\ UNCHANGED <<pc, source>>
       ELSE /\ pc' = "topo_for"
            /\ source' = source + 1
            /\ UNCHANGED <<v, v_edges, work_stack>>
    /\ UNCHANGED <<libVars, fn, graph, result, order, layerVars, properVars,
                   sweepVars, djVars, in_work_set>>

\* lines 118-136: v is done; emit it and pop to the parent frame, or leave
\* the loop when the stack is empty
TopoVertexDone ==
    /\ pc = "topo_loop"
    /\ ~HasNextEdge
    /\ topo_order' = Append(topo_order, v)
    /\ visited' = [visited EXCEPT ![v] = TRUE]
    /\ in_work_set' = [in_work_set EXCEPT ![v] = FALSE]
    /\ IF work_stack # <<>>
       THEN /\ v' = work_stack[Len(work_stack)].v
            /\ v_edges' = work_stack[Len(work_stack)].v_edges
            /\ work_stack' = SubSeq(work_stack, 1, Len(work_stack) - 1)
            /\ UNCHANGED <<pc, source>>
       ELSE /\ pc' = "topo_for"
            /\ source' = source + 1
            /\ UNCHANGED <<v, v_edges, work_stack>>
    /\ UNCHANGED <<libVars, fn, graph, result, order, layerVars, properVars,
                   sweepVars, djVars>>

\* lines 140-150: the for loop is exhausted, topo_sort_reverse returns
\* Ok(topo_order) to its caller
TopoReturnOk ==
    /\ pc = "topo_for"
    /\ source = nv
    /\ pc' = "topo_ok"
    /\ fn' \in Callers
    /\ UNCHANGED <<libVars, graph, result, topoVars, order, layerVars,
                   properVars, sweepVars, djVars>>

\* the error is swallowed and the caller goes on with an empty order
\* (unwrap_or_default for `?`)
TopoErrPropagate_Swallowed ==
    /\ pc = "topo_err"
    /\ topo_order' = <<>>
    /\ pc' = "topo_ok"
    /\ UNCHANGED <<libVars, fn, graph, result, source, visited, work_stack,
                   in_work_set, v, v_edges, order, layerVars, properVars,
                   sweepVars, djVars>>

\* the `?` after the call of topo_sort_reverse (topo_sort.rs line 154,
\* src/layering.rs line 18, trellis/src/layering.rs line 69): the caller
\* returns the error at once
TopoErrPropagate ==
    /\ pc = "topo_err"
    /\ result' = "Err"
    /\ pc' = "done"
    /\ UNCHANGED <<libVars, fn, graph, topoVars, order, layerVars, properVars,
                   sweepVars, djVars>>

\* lines 153-157: topo_sort reverses the order
TopoSortReverseOrder ==
    /\ pc = "topo_ok"
    /\ fn = "topo_sort"
    /\ order' = Reverse(topo_order)
    /\ result' = "Ok"
    /\ pc' = "done"
    /\ UNCHANGED <<libVars, fn, graph, topoVars, layerVars, properVars, sweepVars,
                   djVars>>

TopoNext ==
    \/ TopoStart
    \/ TopoSkipSource
    \/ TopoStartTraversal
    \/ TopoFoundCycle
    \/ TopoAlreadySeen
    \/ TopoDescend
    \/ TopoVertexDone
    \/ TopoReturnOk
    \/ TopoErrPropagate
    \/ TopoSortReverseOrder

\* ------------------------------------------------------------------------
\* Layer assignment (layering.rs: create_layer_map, create_proper_graph)
\* ------------------------------------------------------------------------

\* trellis/src/layering.rs lines 69-73: no vertex has an edge
ProperGraphNoEdges ==
    /\ pc = "topo_ok"
    /\ fn = "create_proper_graph"
    /\ topo_order = <<>>
    /\ result' = "Ok"
    /\ pc' = "done"
    /\ UNCHANGED <<libVars, fn, graph, topoVars, order, layerVars, properVars,
                   sweepVars, djVars>>

\* v_layer starts as vec![0; nv]
LayerStart ==
    /\ pc = "topo_ok"
    /\ \/ fn = "create_layer_map"
       \/ fn = "create_proper_graph" /\ topo_order # <<>>
    /\ v_layer' = [x \in Verts |-> 0]
    /\ max_layer' = 0
    /\ layer_verts_builder' = <<>>
    /\ li' = 0
    /\ pc' = "layer_loop"
    /\ UNCHANGED <<libVars, fn, graph, result, topoVars, order, num_layers,
                   properVars, sweepVars, djVars>>

\* from_layer_of without the `+ 1`
from_layer_of_SameLayer(vl, to_list) ==
    IF to_list = <<>> THEN 0
    ELSE MaxOf({ vl[to_list[i]] : i \in 1..Len(to_list) })

\* the layer of a vertex with out-neighbours to_list: one above the highest
\* of them, or 0 without out-neighbours
from_layer_of(vl, to_list) ==
    IF to_list = <<>> THEN 0
    ELSE MaxOf({ vl[to_list[i]] : i \in 1..Len(to_list) }) + 1

\* LayerAssign that walks topo_order from its end (sources first)
LayerAssign_SourcesFirst ==
    /\ pc = "layer_loop"
    /\ li < Len(topo_order)
    /\ LET from == topo_order[Len(topo_order) - li]
           from_layer == IF edges_from(graph, from) = <<>> THEN 0
                         ELSE MaxOf({ v_layer[edges_from(graph, from)[i]] :
                                        i \in 1..Len(edges_from(graph, from)) }) + 1
       IN  /\ v_layer' = [v_layer EXCEPT ![from] = from_layer]
           /\ IF fn = "create_proper_graph"
              THEN /\ layer_verts_builder' =
                          Append(layer_verts_builder, <<from_layer, from>>)
                   /\ max_layer' =
                          IF from_layer > max_layer THEN from_layer
                          ELSE max_layer
              ELSE UNCHANGED <<layer_verts_builder, max_layer>>
    /\ li' = li + 1
    /\ UNCHANGED <<libVars, fn, graph, pc, result, topoVars, order, num_layers,
                   properVars, sweepVars, djVars>>

\* one iteration of `for &from in topo_order.iter()`
LayerAssign ==
    /\ pc = "layer_loop"
    /\ li < Len(topo_order)
    /\ LET from == topo_order[li + 1]
           from_layer == from_layer_of(v_layer, edges_from(graph, from))
       IN  /\ v_layer' = [v_layer EXCEPT ![from] = from_layer]
           /\ IF fn = "create_proper_graph"
              THEN /\ layer_verts_builder' =
                          Append(layer_verts_builder, <<from_layer, from>>)
                   /\ max_layer' =
                          IF from_layer > max_layer THEN from_layer
                          ELSE max_layer
              ELSE UNCHANGED <<layer_verts_builder, max_layer>>
    /\ li' = li + 1
    /\ UNCHANGED <<libVars, fn, graph, pc, result, topoVars, order, num_layers,
                   properVars, sweepVars, djVars>>

\* src/layering.rs lines 35-40: create_layer_map returns the LayerMap
LayerMapReturn ==
    /\ pc = "layer_loop"
    /\ li = Len(topo_order)
    /\ fn = "create_layer_map"
    /\ num_layers' = (IF nv = 0 THEN 0
                      ELSE MaxOf({ v_layer[x] : x \in Verts })) + 1
    /\ result' = "Ok"
    /\ pc' = "done"
    /\ UNCHANGED <<libVars, fn, graph, topoVars, order, li, v_layer, max_layer,
                   layer_verts_builder, properVars, sweepVars, djVars>>

\* ------------------------------------------------------------------------
\* Proper graph (trellis/src/layering.rs: create_proper_graph)
\* ------------------------------------------------------------------------

\* lines 97-109
ProperStart ==
    /\ pc = "layer_loop"
    /\ li = Len(topo_order)
    /\ fn = "create_proper_graph"
    /\ num_layers' = max_layer + 1
    /\ layer_edges_builder' = <<>>
    /\ next_virt_v' = nv
    /\ ei' = 0
    /\ pc' = "proper_loop"
    /\ UNCHANGED <<libVars, fn, graph, result, topoVars, order, li, v_layer,
                   max_layer, layer_verts_builder, layer_edges, layer_verts,
                   v_pos, sweepVars, djVars>>

\* VirtualChain that files each link under the layer below the virtual vertex
RECURSIVE VirtualChain_LinkBelow(_, _)
VirtualChain_LinkBelow(st, to_layer) ==
    IF st.layer > to_layer
    THEN LET virt_v == st.next_virt_v
         IN  VirtualChain_LinkBelow(
                 [prev_v |-> virt_v,
                  layer |-> st.layer - 1,
                  next_virt_v |-> st.next_virt_v + 1,
                  lvb |-> Append(st.lvb, <<st.layer, virt_v>>),
                  leb |-> Append(st.leb, <<st.layer - 1, <<st.prev_v, virt_v>>>>)],
                 to_layer)
    ELSE st

\* VirtualChain without `next_virt_v += 1`
RECURSIVE VirtualChain_NoAdvance(_, _)
VirtualChain_NoAdvance(st, to_layer) ==
    IF st.layer > to_layer
    THEN LET virt_v == st.next_virt_v
         IN  VirtualChain_NoAdvance(
                 [prev_v |-> virt_v,
                  layer |-> st.layer - 1,
                  next_virt_v |-> st.next_virt_v,
                  lvb |-> Append(st.lvb, <<st.layer, virt_v>>),
                  leb |-> Append(st.leb, <<st.layer, <<st.prev_v, virt_v>>>>)],
                 to_layer)
    ELSE st

\* VirtualChain with `while layer > to_layer + 1`
RECURSIVE VirtualChain_StopAbove(_, _)
VirtualChain_StopAbove(st, to_layer) ==
    IF st.layer > to_layer + 1
    THEN LET virt_v == st.next_virt_v
         IN  VirtualChain_StopAbove(
                 [prev_v |-> virt_v,
                  layer |-> st.layer - 1,
                  next_virt_v |-> st.next_virt_v + 1,
                  lvb |-> Append(st.lvb, <<st.layer, virt_v>>),
                  leb |-> Append(st.leb, <<st.layer, <<st.prev_v, virt_v>>>>)],
                 to_layer)
    ELSE st

\* lines 120-129: `while layer > to_layer`, on the state
\* [prev_v, layer, next_virt_v, lvb, leb]
RECURSIVE VirtualChain(_, _)
VirtualChain(st, to_layer) ==
    IF st.layer > to_layer
    THEN LET virt_v == st.next_virt_v
         IN  VirtualChain(
                 [prev_v |-> virt_v,
                  layer |-> st.layer - 1,
                  next_virt_v |-> st.next_virt_v + 1,
                  lvb |-> Append(st.lvb, <<st.layer, virt_v>>),
                  leb |-> Append(st.leb, <<st.layer, <<st.prev_v, virt_v>>>>)],
                 to_layer)
    ELSE st

\* lines 110-132: one iteration of `for (from, to) in iter_edges_flattened()`
ProperEdge ==
    /\ pc = "proper_loop"
    /\ ei < num_edges(graph)
    /\ LET from == iter_edges_flattened(graph)[ei + 1][1]
           to == iter_edges_flattened(graph)[ei + 1][2]
           from_layer == v_layer[from]
           to_layer == v_layer[to]
           st == VirtualChain([prev_v |-> from,
                               layer |-> from_layer - 1,
                               next_virt_v |-> next_virt_v,
                               lvb |-> layer_verts_builder,
                               leb |-> layer_edges_builder],
                              to_layer)
       IN  /\ next_virt_v' = st.next_virt_v
           /\ layer_verts_builder' = st.lvb
           /\ layer_edges_builder' =
                  Append(st.leb, <<to_layer, <<st.prev_v, to>>>>)
    /\ ei' = ei + 1
    /\ UNCHANGED <<libVars, fn, graph, pc, result, topoVars, order, li, v_layer,
                   max_layer, num_layers, layer_edges, layer_verts, v_pos,
                   sweepVars, djVars>>

\* AssignPos that numbers the vertices through all the layers
RECURSIVE AssignPos_Global(_, _, _)
AssignPos_Global(vp, t, e) ==
    IF e > Len(t.values) THEN vp
    ELSE AssignPos_Global([vp EXCEPT ![t.values[e]] = e - 1], t, e + 1)

\* lines 344-360: the crossings among the first i edges of one boundary;
\* edge i is compared with every edge before it that shares no endpoint
RECURSIVE count_crossings(_, _, _)
count_crossings(vp, edges, i) ==
    IF i = 0 THEN 0
    ELSE count_crossings(vp, edges, i - 1)
         + Cardinality({ j \in 1..(i - 1) :
               /\ edges[i][1] # edges[j][1]
               /\ edges[i][2] # edges[j][2]
               /\ (vp[edges[i][1]] > vp[edges[j][1]])
                      # (vp[edges[i][2]] > vp[edges[j][2]]) })

\* lines 334-340: the sum over the boundaries from the k-th on
RECURSIVE CrossingsFrom(_, _, _)
CrossingsFrom(vp, t, k) ==
    IF k >= num_keys(t) THEN 0
    ELSE count_crossings(vp, entry_values(t, k), Len(entry_values(t, k)))
         + CrossingsFrom(vp, t, k + 1)

count_all_crossings(vp, t) == CrossingsFrom(vp, t, 0)

\* lines 148-153: v_pos[v] is the index of v in the vertex list of its layer
RECURSIVE AssignPos(_, _, _)
AssignPos(vp, t, e) ==
    IF e > Len(t.values) THEN vp
    ELSE LET layer == CHOOSE k \in 0..(num_keys(t) - 1) :
                          t.index[k + 1] < e /\ e <= t.index[k + 2]
         IN  AssignPos([vp EXCEPT ![t.values[e]] = e - 1 - t.index[layer + 1]],
                       t, e + 1)

\* lines 134-163: finish both builders, assign the initial positions and
\* call min_crossings_up
ProperFinish ==
    /\ pc = "proper_loop"
    /\ ei = num_edges(graph)
    /\ layer_edges' = RampTableBuilder_finish(layer_edges_builder)
    /\ layer_verts' = RampTableBuilder_finish(layer_verts_builder)
    /\ v_pos' = AssignPos([x \in 0..(next_virt_v - 1) |-> NO_POS],
                          layer_verts', 1)
    /\ sweep_layer' = 0
    /\ sweep_calls' = Append(sweep_calls, "up")
    /\ num_crossings' =
           Append(num_crossings, count_all_crossings(v_pos', layer_edges'))
    /\ pc' = "sweep_up"
    /\ UNCHANGED <<libVars, fn, graph, result, topoVars, order, layerVars, ei,
                   next_virt_v, layer_edges_builder, sweeps, djVars>>

\* ------------------------------------------------------------------------
\* Crossing minimization (trellis/src/layering.rs, iters.rs)
\* ------------------------------------------------------------------------

\* iters.rs IterRunsByKey over (v_stable, v_moving) pairs keyed by v_moving:
\* the maximal runs of consecutive items with equal key
RECURSIVE iter_runs_by_key(_)
iter_runs_by_key(items) ==
    IF items = <<>> THEN <<>>
    ELSE LET first_key == items[1][2]
             Same == { i \in 1..Len(items) :
                         \A j \in 1..i : items[j][2] = first_key }
             n == MaxOf(Same)
         IN  <<SubSeq(items, 1, n)>>
                 \o iter_runs_by_key(SubSeq(items, n + 1, Len(items)))

Pow2(n) == 2 ^ n

\* num / den rounded to the nearest integer, ties to the even one: the
\* rounding of every f32 operation
RoundTiesEven(num, den) ==
    LET q == num \div den
        r == num % den
    IN  IF 2 * r < den THEN q
        ELSE IF 2 * r > den THEN q + 1
        ELSE IF q % 2 = 0 THEN q ELSE q + 1

\* an f32 is [m, e], the number m / 2^e with m below 2^24; a rounding that
\* reaches 2^24 carries into the exponent
F32(m, e) == IF m = Pow2(24) THEN [m |-> Pow2(23), e |-> e - 1]
             ELSE [m |-> m, e |-> e]

\* the number of binary digits of n
RECURSIVE BitLen(_)
BitLen(n) == IF n = 0 THEN 0 ELSE 1 + BitLen(n \div 2)

\* the shift k that brings p / q into [2^23, 2^24): the least k with
\* p * 2^k >= q * 2^23, one of two candidates given by the digits of p and q
F32_div_shift(p, q) ==
    LET k == 23 + BitLen(q) - BitLen(p)
    IN  IF p * Pow2(k) >= q * Pow2(23) THEN k ELSE k + 1

\* pos_sum / (ee.len() as f32), both operands exact in f32
F32_div(p, q) ==
    IF p = 0 THEN [m |-> 0, e |-> 0]
    ELSE LET k == F32_div_shift(p, q)
         IN  F32(RoundTiesEven(p * Pow2(k), q), k)

\* the digits a product has above 24: at most 7, the digits of 125
F32_excess(n) ==
    IF n < Pow2(24) THEN 0
    ELSE CHOOSE s \in 1..7 : /\ n \div Pow2(s) < Pow2(24)
                              /\ n \div Pow2(s - 1) >= Pow2(24)

\* pos_avg * 1000.0f32; 1000 is 125 * 2^3
F32_mul_1000(x) ==
    LET product == x.m * 125
        s == F32_excess(product)
    IN  F32(RoundTiesEven(product, Pow2(s)), x.e - 3 - s)

\* as u32 of a non-negative f32: the integer part
F32_as_u32(x) ==
    IF x.e >= 0 THEN x.m \div Pow2(x.e) ELSE x.m * Pow2(0 - x.e)

\* lines 219-222: (pos_sum / len * 1000.0f32) as u32, computed in f32.
\* pos_sum is exact in f32 while it is below 2^24; results from 2^31 on
\* (a layer of millions of vertices) are beyond the integers of the checker.
scaled_avg(pos_sum, len) == F32_as_u32(F32_mul_1000(F32_div(pos_sum, len)))

RECURSIVE AssignRanks(_, _, _)
AssignRanks(vp, barys, i) ==
    IF i > Len(barys) THEN vp
    ELSE AssignRanks([vp EXCEPT ![barys[i][2][1]] = i - 1], barys, i + 1)

\* min_crossings_core that clears every position before it ranks the runs
min_crossings_core_ClearAll(vp, edges) ==
    LET sorted == sort_by_key([i \in 1..Len(edges) |-> <<edges[i][2], edges[i]>>])
        runs == iter_runs_by_key([i \in 1..Len(sorted) |-> sorted[i][2]])
        bary(ee) ==
            <<ee[1][2],
              scaled_avg(SumSeq([i \in 1..Len(ee) |-> vp[ee[i][1]]]), Len(ee))>>
        barys == sort_by_key([i \in 1..Len(runs) |->
                                 <<bary(runs[i])[2], bary(runs[i])>>])
    IN  AssignRanks([x \in DOMAIN vp |-> 0], barys, 1)

\* min_crossings_core that ranks the stable ends of the pairs
min_crossings_core_MoveStable(vp, edges) ==
    LET sorted == sort_by_key([i \in 1..Len(edges) |-> <<edges[i][1], edges[i]>>])
        runs == iter_runs_by_key([i \in 1..Len(sorted) |->
                                     <<sorted[i][2][2], sorted[i][2][1]>>])
        bary(ee) ==
            <<ee[1][2],
              scaled_avg(SumSeq([i \in 1..Len(ee) |-> vp[ee[i][1]]]), Len(ee))>>
        barys == sort_by_key([i \in 1..Len(runs) |->
                                 <<bary(runs[i])[2], bary(runs[i])>>])
    IN  AssignRanks(vp, barys, 1)

\* min_crossings_core that ranks the runs without sorting them by barycenter
min_crossings_core_NoBarySort(vp, edges) ==
    LET sorted == sort_by_key([i \in 1..Len(edges) |-> <<edges[i][2], edges[i]>>])
        runs == iter_runs_by_key([i \in 1..Len(sorted) |-> sorted[i][2]])
        bary(ee) ==
            <<ee[1][2],
              scaled_avg(SumSeq([i \in 1..Len(ee) |-> vp[ee[i][1]]]), Len(ee))>>
        barys == [i \in 1..Len(runs) |-> <<bary(runs[i])[2], bary(runs[i])>>]
    IN  AssignRanks(vp, barys, 1)

\* lines 207-234; edges are (v_stable, v_moving) pairs
min_crossings_core(vp, edges) ==
    LET sorted == sort_by_key([i \in 1..Len(edges) |-> <<edges[i][2], edges[i]>>])
        runs == iter_runs_by_key([i \in 1..Len(sorted) |-> sorted[i][2]])
        bary(ee) ==
            <<ee[1][2],
              scaled_avg(SumSeq([i \in 1..Len(ee) |-> vp[ee[i][1]]]), Len(ee))>>
        barys == sort_by_key([i \in 1..Len(runs) |->
                                 <<bary(runs[i])[2], bary(runs[i])>>])
    IN  AssignRanks(vp, barys, 1)

\* lines 191-202: one iteration of the loop of min_crossings_up
MinCrossingsUpStep ==
    /\ pc = "sweep_up"
    /\ sweep_layer < num_keys(layer_edges)
    /\ LET edges == entry_values(layer_edges, sweep_layer)
           local_edges == [i \in 1..Len(edges) |-> <<edges[i][1], edges[i][2]>>]
       IN  v_pos' = min_crossings_core(v_pos, local_edges)
    /\ sweeps' = Append(sweeps, <<"up", sweep_layer>>)
    /\ sweep_layer' = sweep_layer + 1
    /\ UNCHANGED <<libVars, fn, graph, pc, result, topoVars, order, layerVars, ei,
                   next_virt_v, layer_edges_builder, layer_edges,
                   layer_verts, sweep_calls, num_crossings,
                   djVars>>

\* MinCrossingsDownStart that goes on to the return without the call
MinCrossingsDownStart_NoCall ==
    /\ pc = "sweep_up"
    /\ sweep_layer = num_keys(layer_edges)
    /\ sweep_layer' = 0
    /\ num_crossings' =
           Append(num_crossings, count_all_crossings(v_pos, layer_edges))
    /\ pc' = "sweep_down"
    /\ UNCHANGED <<libVars, fn, graph, result, topoVars, order, layerVars,
                   properVars, sweeps, sweep_calls, djVars>>

\* line 164: min_crossings_up is over, min_crossings_down is called and
\* starts at the top
MinCrossingsDownStart ==
    /\ pc = "sweep_up"
    /\ sweep_layer = num_keys(layer_edges)
    /\ sweep_calls' = Append(sweep_calls, "down")
    /\ num_crossings' =
           num_crossings \o <<count_all_crossings(v_pos, layer_edges),
                              count_all_crossings(v_pos, layer_edges)>>
    /\ pc' = "sweep_down"
    /\ UNCHANGED <<libVars, fn, graph, result, topoVars, order, layerVars,
                   properVars, sweep_layer, sweeps, djVars>>

\* MinCrossingsDownStep that reads the pairs as min_crossings_up does
MinCrossingsDownStep_AsUp ==
    /\ pc = "sweep_down"
    /\ sweep_layer > 0
    /\ LET edges == entry_values(layer_edges, sweep_layer - 1)
           local_edges == [i \in 1..Len(edges) |-> <<edges[i][1], edges[i][2]>>]
       IN  v_pos' = min_crossings_core(v_pos, local_edges)
    /\ sweeps' = Append(sweeps, <<"down", sweep_layer - 1>>)
    /\ sweep_layer' = sweep_layer - 1
    /\ UNCHANGED <<libVars, fn, graph, pc, result, topoVars, order, layerVars, ei,
                   next_virt_v, layer_edges_builder, layer_edges,
                   layer_verts, sweep_calls, num_crossings,
                   djVars>>

\* lines 176-187: one iteration of the loop of min_crossings_down
MinCrossingsDownStep ==
    /\ pc = "sweep_down"
    /\ sweep_layer > 0
    /\ LET edges == entry_values(layer_edges, sweep_layer - 1)
           local_edges == [i \in 1..Len(edges) |-> <<edges[i][2], edges[i][1]>>]
       IN  v_pos' = min_crossings_core(v_pos, local_edges)
    /\ sweeps' = Append(sweeps, <<"down", sweep_layer - 1>>)
    /\ sweep_layer' = sweep_layer - 1
    /\ UNCHANGED <<libVars, fn, graph, pc, result, topoVars, order, layerVars, ei,
                   next_virt_v, layer_edges_builder, layer_edges,
                   layer_verts, sweep_calls, num_crossings,
                   djVars>>

\* lines 185-186 and 169: min_crossings_down counts the crossings again and
\* create_proper_graph returns
ProperReturn ==
    /\ pc = "sweep_down"
    /\ sweep_layer = 0
    /\ num_crossings' =
           Append(num_crossings, count_all_crossings(v_pos, layer_edges))
    /\ result' = "Ok"
    /\ pc' = "done"
    /\ UNCHANGED <<libVars, fn, graph, topoVars, order, layerVars, properVars,
                   sweep_layer, sweeps, sweep_calls, djVars>>

LayerNext ==
    \/ ProperGraphNoEdges
    \/ LayerStart
    \/ LayerAssign
    \/ LayerMapReturn
    \/ ProperStart
    \/ ProperEdge
    \/ ProperFinish
    \/ MinCrossingsUpStep
    \/ MinCrossingsDownStart
    \/ MinCrossingsDownStep
    \/ ProperReturn

\* ------------------------------------------------------------------------
\* Graph::transpose applied to a graph and then to the result
\* ------------------------------------------------------------------------
InitTranspose ==
    /\ fn = "transpose"
    /\ graph \in Graphs(MaxVerts, MaxEdges)
    /\ pc = "start"
    /\ InitLocals

\* graph.transpose()
TransposeCall ==
    /\ pc = "start"
    /\ fn = "transpose"
    /\ LET r == transpose(graph)
       IN  IF r.ok
           THEN transposed' = <<r.graph>> /\ pc' = "transposed"
           ELSE transposed' = transposed /\ pc' = "panic"
    /\ UNCHANGED <<fn, graph, result, topoVars, order, layerVars, properVars,
                   sweepVars, djVars, rtVars, builderVars, voVars, coreVars, pqVars>>

\* graph.transpose().transpose()
TransposeAgain ==
    /\ pc = "transposed"
    /\ LET r == transpose(transposed[1])
       IN  IF r.ok
           THEN transposed' = Append(transposed, r.graph) /\ pc' = "done"
           ELSE transposed' = transposed /\ pc' = "panic"
    /\ UNCHANGED <<fn, graph, result, topoVars, order, layerVars, properVars,
                   sweepVars, djVars, rtVars, builderVars, voVars, coreVars, pqVars>>

NextTranspose == TransposeCall \/ TransposeAgain

SpecTranspose == InitTranspose /\ [][NextTranspose]_vars

\* ------------------------------------------------------------------------
\* RampTable under push_value, finish_key, the push_entry functions, writes
\* through its mutable slices, and clear (ramp_table.rs).  The table does not
\* look at its values, so every value pushed or written is a new one.
\* ------------------------------------------------------------------------
InitRampTable ==
    /\ fn = "RampTable"
    /\ graph = RampTable_new
    /\ pc = "ops"
    /\ InitLocals

\* what no RampTable operation touches
rtFrame == <<fn, graph, pc, result, topoVars, order, layerVars, properVars,
             sweepVars, djVars, transposed, builderVars, voVars, coreVars, pqVars>>

RtPushValue ==
    /\ fn = "RampTable"
    /\ rt_ops < RtMaxOps
    /\ table' = push_value(table, rt_next)
    /\ rt_pending' = Append(rt_pending, rt_next)
    /\ rt_next' = rt_next + 1
    /\ rt_op' = "push_value"
    /\ rt_ops' = rt_ops + 1
    /\ UNCHANGED <<rtFrame, rt_ret, rt_entries, rt_writes>>

RtFinishKey ==
    /\ fn = "RampTable"
    /\ rt_ops < RtMaxOps
    /\ rt_ret' = finish_key_ret(table)
    /\ table' = finish_key(table)
    /\ rt_entries' = Append(rt_entries, rt_pending)
    /\ rt_pending' = <<>>
    /\ rt_op' = "finish_key"
    /\ rt_ops' = rt_ops + 1
    /\ UNCHANGED <<rtFrame, rt_next, rt_writes>>

RtPushEntryCopy ==
    /\ fn = "RampTable"
    /\ rt_ops < RtMaxOps
    /\ \E n \in 0..RtMaxLen :
           LET values == [i \in 1..n |-> rt_next + i - 1]
           IN  /\ table' = push_entry_copy(table, values)
               /\ rt_entries' = Append(rt_entries, rt_pending \o values)
               /\ rt_next' = rt_next + n
    /\ rt_pending' = <<>>
    /\ rt_op' = "push_entry_copy"
    /\ rt_ops' = rt_ops + 1
    /\ UNCHANGED <<rtFrame, rt_ret, rt_writes>>

RtClear ==
    /\ fn = "RampTable"
    /\ rt_ops < RtMaxOps
    /\ table' = RampTable_clear(table)
    /\ rt_entries' = <<>>
    /\ rt_pending' = <<>>
    /\ rt_op' = "clear"
    /\ rt_ops' = rt_ops + 1
    /\ UNCHANGED <<rtFrame, rt_ret, rt_next, rt_writes>>

\* push_entry_clone and push_entry_extend: extend values, then finish_key
push_entry_clone(t, values) ==
    finish_key([t EXCEPT !.values = @ \o values])

push_entry_extend(t, values) ==
    finish_key([t EXCEPT !.values = @ \o values])

RtPushEntryClone ==
    /\ fn = "RampTable"
    /\ rt_ops < RtMaxOps
    /\ \E n \in 0..RtMaxLen :
           LET values == [i \in 1..n |-> rt_next + i - 1]
           IN  /\ table' = push_entry_clone(table, values)
               /\ rt_entries' = Append(rt_entries, rt_pending \o values)
               /\ rt_next' = rt_next + n
    /\ rt_pending' = <<>>
    /\ rt_op' = "push_entry_clone"
    /\ rt_ops' = rt_ops + 1
    /\ UNCHANGED <<rtFrame, rt_ret, rt_writes>>

RtPushEntryExtend ==
    /\ fn = "RampTable"
    /\ rt_ops < RtMaxOps
    /\ \E n \in 0..RtMaxLen :
           LET values == [i \in 1..n |-> rt_next + i - 1]
           IN  /\ table' = push_entry_extend(table, values)
               /\ rt_entries' = Append(rt_entries, rt_pending \o values)
               /\ rt_next' = rt_next + n
    /\ rt_pending' = <<>>
    /\ rt_op' = "push_entry_extend"
    /\ rt_ops' = rt_ops + 1
    /\ UNCHANGED <<rtFrame, rt_ret, rt_writes>>

\* the positions in values (from 0) of the slice of key k
entry_values_range(t, k) == (t.index[k + 1])..(t.index[k + 2] - 1)

\* the guard of every write
RtMayWrite ==
    /\ fn = "RampTable"
    /\ rt_ops < RtMaxOps
    /\ rt_writes < RtMaxWrites

\* a write of the value rt_next at position p of values, through a mutable
\* slice the table has handed out under the name op
RtWrite(op, p) ==
    /\ table' = [table EXCEPT !.values[p + 1] = rt_next]
    /\ LET last == table.index[Len(table.index)]
       IN  IF p >= last
           THEN /\ rt_pending' = [rt_pending EXCEPT ![p - last + 1] = rt_next]
                /\ UNCHANGED rt_entries
           ELSE /\ \E k \in 0..(num_keys(table) - 1) :
                       /\ p \in entry_values_range(table, k)
                       /\ rt_entries' =
                              [rt_entries EXCEPT
                                  ![k + 1][p - table.index[k + 1] + 1] = rt_next]
                /\ UNCHANGED rt_pending
    /\ rt_next' = rt_next + 1
    /\ rt_writes' = rt_writes + 1
    /\ rt_op' = op
    /\ rt_ops' = rt_ops + 1
    /\ UNCHANGED <<rtFrame, rt_ret>>

\* entry_values_mut(k)[j] = value
RtEntryValuesMut ==
    /\ RtMayWrite
    /\ \E k \in 0..(num_keys(table) - 1) :
           \E p \in entry_values_range(table, k) :
               RtWrite("entry_values_mut", p)

\* table[k][j] = value: index_mut hands out the slice of key k
RtIndexMut ==
    /\ RtMayWrite
    /\ \E k \in 0..(num_keys(table) - 1) :
           \E p \in entry_values_range(table, k) : RtWrite("index_mut", p)

\* a write through one of the slices iter_mut yields, one slice per key
RtIterMut ==
    /\ RtMayWrite
    /\ \E k \in 0..(num_keys(table) - 1) :
           \E p \in entry_values_range(table, k) : RtWrite("iter_mut", p)

\* all_values_mut()[p] = value: any value, those of no key included
RtAllValuesMut ==
    /\ RtMayWrite
    /\ \E p \in 0..(Len(table.values) - 1) : RtWrite("all_values_mut", p)

NextRampTable ==
    \/ RtPushValue
    \/ RtFinishKey
    \/ RtPushEntryCopy
    \/ RtPushEntryClone
    \/ RtPushEntryExtend
    \/ RtEntryValuesMut
    \/ RtIndexMut
    \/ RtIterMut
    \/ RtAllValuesMut
    \/ RtClear

SpecRampTable == InitRampTable /\ [][NextRampTable]_vars

\* ------------------------------------------------------------------------
\* RampTableBuilder (ramp_table.rs lines 308-357), made by new or
\* with_capacity: pairs pushed one by one or handed over by extend, in any key
\* order, then finish.  The k-th pair carries the value k.
\* ------------------------------------------------------------------------
InitBuilder ==
    /\ fn = "RampTableBuilder"
    /\ graph = RampTable_new
    /\ pc = "push"
    /\ InitLocals

\* lines 328-330
BuilderPush ==
    /\ fn = "RampTableBuilder"
    /\ pc = "push"
    /\ Len(builder_items) < RbMaxItems
    /\ \E key \in 0..RbMaxKey : builder_items' = Append(builder_items, <<key, Len(builder_items)>>)
    /\ UNCHANGED <<fn, graph, pc, result, topoVars, order, layerVars,
                   properVars, sweepVars, djVars, transposed, rtVars, voVars,
                   coreVars, pqVars>>

\* lines 336-356
BuilderFinish ==
    /\ fn = "RampTableBuilder"
    /\ pc = "push"
    /\ table' = RampTableBuilder_finish(builder_items)
    /\ pc' = "done"
    /\ UNCHANGED <<fn, graph, result, topoVars, order, layerVars, properVars,
                   sweepVars, djVars, transposed, rt_op, rt_ret, rt_ops,
                   rt_next, rt_pending, rt_entries, rt_writes, builderVars,
                   voVars,
                   coreVars, pqVars>>

\* lines 332-334: extend appends the pairs the iterator yields, in order
BuilderExtend ==
    /\ fn = "RampTableBuilder"
    /\ pc = "push"
    /\ \E n \in 0..RbMaxExtend :
           /\ Len(builder_items) + n <= RbMaxItems
           /\ \E keys \in [1..n -> 0..RbMaxKey] :
                  builder_items' =
                      builder_items \o
                          [i \in 1..n |-> <<keys[i], Len(builder_items) + i - 1>>]
    /\ UNCHANGED <<fn, graph, pc, result, topoVars, order, layerVars,
                   properVars, sweepVars, djVars, transposed, rtVars, voVars,
                   coreVars, pqVars>>

NextBuilder == BuilderPush \/ BuilderExtend \/ BuilderFinish

SpecBuilder == InitBuilder /\ [][NextBuilder]_vars

\* ------------------------------------------------------------------------
\* VecOption (vec_option.rs): a value buffer and a presence bitmap.  A slot
\* that is not present is uninitialized memory: in a fresh allocation it
\* holds whatever the caller of the model passes as uninit, and replace_none,
\* pop and compact leave the old value behind.  spare is what the buffer
\* holds past its length, from the slot at vec.len() on, as far as something
\* was written there: the items that pop and compact cut off.  The slots of
\* the capacity after those were never written.
\* Option<T> is <<>> for None and <<v>> for Some(v).
\* ------------------------------------------------------------------------
VecOption_new == [vec |-> <<>>, present |-> <<>>, spare |-> <<>>]

\* uninit is what the len slots of the fresh allocation happen to hold
new_repeat_none(len, uninit) ==
    [vec |-> [i \in 1..len |-> uninit[i]],
     present |-> [i \in 1..len |-> FALSE],
     spare |-> <<>>]

VecOption_len(vo) == Len(vo.vec)

VecOption_is_empty(vo) == vo.vec = <<>>

\* indexes the bitmap, which panics past its end
get_ref(vo, index) ==
    IF vo.present[index + 1] THEN <<vo.vec[index + 1]>> ELSE <<>>

get_copy(vo, index) == get_ref(vo, index)

\* walks the bitmap
VecOption_iter(vo) ==
    [i \in 1..Len(vo.present) |->
        IF vo.present[i] THEN <<vo.vec[i]>> ELSE <<>>]

\* the old value is returned, the new one written in place
replace_some(vo, index, value) ==
    [vo |-> [vec |-> [vo.vec EXCEPT ![index + 1] = value],
             present |-> [vo.present EXCEPT ![index + 1] = TRUE],
             spare |-> vo.spare],
     ret |-> IF vo.present[index + 1] THEN <<vo.vec[index + 1]>> ELSE <<>>]

\* replace_none that forgets to clear the bit
replace_none_KeepBit(vo, index) ==
    IF vo.present[index + 1]
    THEN [vo |-> vo, ret |-> <<vo.vec[index + 1]>>]
    ELSE [vo |-> vo, ret |-> <<>>]

\* the bit is cleared, the buffer is left as it is
replace_none(vo, index) ==
    IF vo.present[index + 1]
    THEN [vo |-> [vo EXCEPT !.present[index + 1] = FALSE],
          ret |-> <<vo.vec[index + 1]>>]
    ELSE [vo |-> vo, ret |-> <<>>]

replace(vo, index, value) ==
    IF value # <<>> THEN replace_some(vo, index, value[1])
    ELSE replace_none(vo, index)

set_some(vo, index, value) ==
    [vec |-> [vo.vec EXCEPT ![index + 1] = value],
     present |-> [vo.present EXCEPT ![index + 1] = TRUE],
     spare |-> vo.spare]

set_none(vo, index) == replace_none(vo, index).vo

\* the spare slots after the one the length now covers
spare_after_push(vo) == IF vo.spare = <<>> THEN <<>> ELSE Tail(vo.spare)

\* Vec::push writes the value over the slot at vec.len()
push_some(vo, value) ==
    [vec |-> Append(vo.vec, value),
     present |-> Append(vo.present, TRUE),
     spare |-> spare_after_push(vo)]

\* reserve(1), then set_len(len + 1): the slot the length now covers keeps
\* what an earlier item left there; a slot never written holds uninit
push_none(vo, uninit) ==
    [vec |-> Append(vo.vec, IF vo.spare = <<>> THEN uninit ELSE vo.spare[1]),
     present |-> Append(vo.present, FALSE),
     spare |-> spare_after_push(vo)]

push(vo, value, uninit) ==
    IF value # <<>> THEN push_some(vo, value[1]) ELSE push_none(vo, uninit)

\* Option<Option<T>>; ok is the assert_eq on the two lengths
pop(vo) ==
    IF Len(vo.vec) # Len(vo.present) THEN [vo |-> vo, ret |-> <<>>, ok |-> FALSE]
    ELSE IF vo.present = <<>> THEN [vo |-> vo, ret |-> <<>>, ok |-> TRUE]
    ELSE LET n == Len(vo.present)
             shorter == [vec |-> SubSeq(vo.vec, 1, n - 1),
                         present |-> SubSeq(vo.present, 1, n - 1),
                         spare |-> <<vo.vec[n]>> \o vo.spare]
         IN  [vo |-> shorter,
              ret |-> IF vo.present[n] THEN << <<vo.vec[n]>> >> ELSE << <<>> >>,
              ok |-> TRUE]

\* pops until a Some comes off or the vector is empty
RECURSIVE pop_some(_)
pop_some(vo) ==
    LET r == pop(vo)
    IN  IF ~r.ok THEN r
        ELSE IF r.ret = <<>> THEN [vo |-> r.vo, ret |-> <<>>, ok |-> TRUE]
        ELSE IF r.ret[1] # <<>> THEN [vo |-> r.vo, ret |-> r.ret[1], ok |-> TRUE]
        ELSE pop_some(r.vo)

\* a copy loop that counts and never copies
RECURSIVE compact_copy_NoMove(_, _, _, _)
compact_copy_NoMove(vec, present, i, num_keep) ==
    IF i > Len(present) THEN [vec |-> vec, num_keep |-> num_keep]
    ELSE IF present[i]
    THEN compact_copy_NoMove(vec, present, i + 1, num_keep + 1)
    ELSE compact_copy_NoMove(vec, present, i + 1, num_keep)

\* the copy loop of compact, from the i-th slot on (i counts from 1) with
\* num_keep items kept so far
RECURSIVE compact_copy(_, _, _, _)
compact_copy(vec, present, i, num_keep) ==
    IF i > Len(present) THEN [vec |-> vec, num_keep |-> num_keep]
    ELSE IF present[i]
    THEN compact_copy(IF i - 1 # num_keep
                      THEN [vec EXCEPT ![num_keep + 1] = vec[i]]
                      ELSE vec,
                      present, i + 1, num_keep + 1)
    ELSE compact_copy(vec, present, i + 1, num_keep)

\* the bits and the lengths are touched only when something was dropped
compact(vo) ==
    LET len == Len(vo.present)
        c == compact_copy(vo.vec, vo.present, 1, 0)
    IN  IF c.num_keep # len
        THEN [vec |-> SubSeq(c.vec, 1, c.num_keep),
              present |-> [i \in 1..c.num_keep |-> TRUE],
              spare |-> SubSeq(c.vec, c.num_keep + 1, len) \o vo.spare]
        ELSE [vec |-> c.vec, present |-> vo.present, spare |-> vo.spare]

\* the slice compact returns is the whole buffer
some_into_vec(vo) == compact(vo).vec

\* Vec<Option<T>>::pop
Vec_pop(list) ==
    IF list = <<>> THEN [list |-> list, ret |-> <<>>]
    ELSE [list |-> SubSeq(list, 1, Len(list) - 1), ret |-> <<list[Len(list)]>>]

\* the loop of pop_some over a Vec<Option<T>>
RECURSIVE Vec_pop_some(_)
Vec_pop_some(list) ==
    IF list = <<>> THEN [list |-> list, ret |-> <<>>]
    ELSE IF list[Len(list)] # <<>>
    THEN [list |-> SubSeq(list, 1, Len(list) - 1), ret |-> list[Len(list)]]
    ELSE Vec_pop_some(SubSeq(list, 1, Len(list) - 1))

IsSome(o) == o # <<>>

\* lines 81-87
from_vec(list) ==
    [vec |-> list, present |-> [i \in 1..Len(list) |-> TRUE], spare |-> <<>>]

\* FromIterator: with_capacity, then one push per item; uninit[i] is what the
\* slot of the i-th item holds if the item is None
RECURSIVE from_iter_push(_, _, _, _)
from_iter_push(vo, its, uninit, i) ==
    IF i > Len(its) THEN vo
    ELSE from_iter_push(push(vo, its[i], uninit[i]), its, uninit, i + 1)

from_iter(its, uninit) == from_iter_push(VecOption_new, its, uninit, 1)

\* get_mut: the item the reference it returns points at, or None
get_mut(vo, index) ==
    IF vo.present[index + 1] THEN <<vo.vec[index + 1]>> ELSE <<>>

\* a write of value through a &mut T to slot index
write_through(vo, index, value) == [vo EXCEPT !.vec[index + 1] = value]

\* the slots (from 0) iter_mut and iter_some_index_mut hand out as &mut T
iter_mut_slots(vo) == { i \in 0..(Len(vo.present) - 1) : vo.present[i + 1] }

\* find_next_run: skips the items that are not present from search on, then
\* takes the items that are
find_next_run(present, search) ==
    LET Skipped == { n \in search..Len(present) :
                      \A j \in search..(n - 1) : ~present[j + 1] }
        start == MaxOf(Skipped)
        Taken == { n \in start..Len(present) :
                    \A j \in start..(n - 1) : present[j + 1] }
    IN  [start |-> start, end |-> MaxOf(Taken)]

\* the ranges IterRunsMut yields from next on
RECURSIVE iter_runs_mut(_, _)
iter_runs_mut(vo, next) ==
    LET range == find_next_run(vo.present, next)
    IN  IF range.start < range.end
        THEN <<range>> \o iter_runs_mut(vo, range.end)
        ELSE <<>>

\* the slots (from 0) inside the slices iter_runs_mut hands out
iter_runs_mut_slots(vo) ==
    UNION { (iter_runs_mut(vo, 0)[r].start)..(iter_runs_mut(vo, 0)[r].end - 1) :
              r \in 1..Len(iter_runs_mut(vo, 0)) }

\* writes of value to the slots of S
RECURSIVE write_all(_, _, _)
write_all(vo, S, value) ==
    IF S = {} THEN vo
    ELSE LET index == MaxOf(S)
         IN  write_all(write_through(vo, index, value), S \ {index}, value)

\* IntoIter::next until it returns None: replace_none on every index below
\* vec.len()
RECURSIVE into_iter(_, _)
into_iter(vo, next) ==
    IF next < VecOption_len(vo)
    THEN <<replace_none(vo, next).ret>> \o into_iter(replace_none(vo, next).vo, next + 1)
    ELSE <<>>

\* lines 38-54, Clone: clone_vec is allocated with the capacity of the
\* original's length and its length is never set, so it stays empty; the
\* clones of the present items are written past its end, into the spare
\* capacity (<<>> is a slot nothing was written to); the bitmap is cloned.
VecOption_clone(vo) ==
    [vec |-> <<>>,
     present |-> vo.present,
     spare |-> [i \in 1..Len(vo.present) |->
                   IF vo.present[i] THEN <<vo.vec[i]>> ELSE <<>>]]

\* VecOption::new() or with_capacity: an empty vector
InitVecOption ==
    /\ fn = "VecOption"
    /\ graph = RampTable_new
    /\ pc = "ops"
    /\ InitLocals

\* what no VecOption operation touches
voFrame == <<fn, graph, result, topoVars, order, layerVars, properVars,
             sweepVars, djVars, transposed, rtVars, builderVars, coreVars, pqVars>>

\* the guard of every operation, and what every operation records
VoCall(name) ==
    /\ fn = "VecOption"
    /\ pc = "ops"
    /\ vo_ops < VoMaxOps
    /\ vo_op' = name
    /\ vo_ops' = vo_ops + 1
    /\ vo_before' = vec_option
    /\ vo_clone' = IF name = "clone" THEN VecOption_clone(vec_option)
                   ELSE vo_clone
    /\ UNCHANGED voFrame

\* a value no earlier operation has stored
VoFresh == vo_ops + 1

VoIndexes == 0..(Len(vec_option.present) - 1)

VoPush ==
    /\ VoCall("push")
    /\ \E value \in {<<>>, <<VoFresh>>}, uninit \in 0..VoMaxUninit :
           /\ value # <<>> => uninit = 0
           /\ vec_option' = push(vec_option, value, uninit)
           /\ shadow' = Append(shadow, value)
    /\ vo_ret' = <<>>
    /\ shadow_ret' = <<>>
    /\ UNCHANGED pc

VoPushSome ==
    /\ VoCall("push_some")
    /\ vec_option' = push_some(vec_option, VoFresh)
    /\ shadow' = Append(shadow, <<VoFresh>>)
    /\ vo_ret' = <<>>
    /\ shadow_ret' = <<>>
    /\ UNCHANGED pc

VoPushNone ==
    /\ VoCall("push_none")
    /\ \E uninit \in 0..VoMaxUninit :
           vec_option' = push_none(vec_option, uninit)
    /\ shadow' = Append(shadow, <<>>)
    /\ vo_ret' = <<>>
    /\ shadow_ret' = <<>>
    /\ UNCHANGED pc

VoPop ==
    /\ VoCall("pop")
    /\ LET r == pop(vec_option)
       IN  /\ vec_option' = r.vo
           /\ vo_ret' = r.ret
           /\ pc' = IF r.ok THEN pc ELSE "panic"
    /\ shadow' = Vec_pop(shadow).list
    /\ shadow_ret' = Vec_pop(shadow).ret

VoPopSome ==
    /\ VoCall("pop_some")
    /\ LET r == pop_some(vec_option)
       IN  /\ vec_option' = r.vo
           /\ vo_ret' = r.ret
           /\ pc' = IF r.ok THEN pc ELSE "panic"
    /\ shadow' = Vec_pop_some(shadow).list
    /\ shadow_ret' = Vec_pop_some(shadow).ret

\* an index past the end panics in both vectors; the calls are within bounds
VoReplace ==
    /\ VoCall("replace")
    /\ \E index \in VoIndexes, value \in {<<>>, <<VoFresh>>} :
           /\ vec_option' = replace(vec_option, index, value).vo
           /\ vo_ret' = replace(vec_option, index, value).ret
           /\ shadow' = [shadow EXCEPT ![index + 1] = value]
           /\ shadow_ret' = shadow[index + 1]
    /\ UNCHANGED pc

VoSetSome ==
    /\ VoCall("set_some")
    /\ \E index \in VoIndexes :
           /\ vec_option' = set_some(vec_option, index, VoFresh)
           /\ shadow' = [shadow EXCEPT ![index + 1] = <<VoFresh>>]
    /\ vo_ret' = <<>>
    /\ shadow_ret' = <<>>
    /\ UNCHANGED pc

VoSetNone ==
    /\ VoCall("set_none")
    /\ \E index \in VoIndexes :
           /\ vec_option' = set_none(vec_option, index)
           /\ shadow' = [shadow EXCEPT ![index + 1] = <<>>]
    /\ vo_ret' = <<>>
    /\ shadow_ret' = <<>>
    /\ UNCHANGED pc

\* returns the slice of the kept values; the Vec<Option<T>> drops its Nones
VoCompact ==
    /\ VoCall("compact")
    /\ vec_option' = compact(vec_option)
    /\ vo_ret' = compact(vec_option).vec
    /\ shadow' = SelectSeq(shadow, IsSome)
    /\ shadow_ret' = [i \in 1..Len(SelectSeq(shadow, IsSome)) |->
                          SelectSeq(shadow, IsSome)[i][1]]
    /\ UNCHANGED pc

\* consumes the VecOption
VoSomeIntoVec ==
    /\ VoCall("some_into_vec")
    /\ vo_ret' = some_into_vec(vec_option)
    /\ vec_option' = VecOption_new
    /\ shadow' = <<>>
    /\ shadow_ret' = [i \in 1..Len(SelectSeq(shadow, IsSome)) |->
                          SelectSeq(shadow, IsSome)[i][1]]
    /\ pc' = "done"

\* the values a constructor is handed: none that an operation stores later
VoInitial(i) == VoMaxOps + i

\* the vector is made by from_vec instead of new
VoFromVec ==
    /\ VoCall("from_vec")
    /\ vo_ops = 0
    /\ \E n \in 0..VoMaxInit :
           /\ vec_option' = from_vec([i \in 1..n |-> VoInitial(i)])
           /\ shadow' = [i \in 1..n |-> <<VoInitial(i)>>]
    /\ UNCHANGED <<vo_ret, shadow_ret, pc>>

\* the vector is made by new_repeat_none instead of new
VoNewRepeatNone ==
    /\ VoCall("new_repeat_none")
    /\ vo_ops = 0
    /\ \E n \in 0..VoMaxInit :
       \E uninit \in [1..n -> 0..VoMaxUninit] :
           /\ vec_option' = new_repeat_none(n, uninit)
           /\ shadow' = [i \in 1..n |-> <<>>]
    /\ UNCHANGED <<vo_ret, shadow_ret, pc>>

\* the vector is collected from an iterator of Option<T>
VoFromIter ==
    /\ VoCall("from_iter")
    /\ vo_ops = 0
    /\ \E n \in 0..VoMaxInit :
       \E some \in [1..n -> BOOLEAN], uninit \in [1..n -> 0..VoMaxUninit] :
           LET its == [i \in 1..n |->
                          IF some[i] THEN <<VoInitial(i)>> ELSE <<>>]
           IN  /\ \A i \in 1..n : some[i] => uninit[i] = 0
               /\ vec_option' = from_iter(its, uninit)
               /\ shadow' = its
    /\ UNCHANGED <<vo_ret, shadow_ret, pc>>

\* *get_mut(index).unwrap() = value when the item is present; the Vec writes
\* through the Option it holds at index
VoGetMut ==
    /\ VoCall("get_mut")
    /\ \E index \in VoIndexes :
           /\ vo_ret' = get_mut(vec_option, index)
           /\ shadow_ret' = shadow[index + 1]
           /\ IF get_mut(vec_option, index) # <<>>
              THEN vec_option' = write_through(vec_option, index, VoFresh)
              ELSE vec_option' = vec_option
           /\ IF shadow[index + 1] # <<>>
              THEN shadow' = [shadow EXCEPT ![index + 1] = <<VoFresh>>]
              ELSE shadow' = shadow
    /\ UNCHANGED pc

\* writes through the references an iterator hands out, to the slots of S
VoWrites(Slots) ==
    /\ \E S \in SUBSET Slots :
           /\ vec_option' = write_all(vec_option, S, VoFresh)
           /\ shadow' = [i \in 1..Len(shadow) |->
                             IF (i - 1) \in S /\ shadow[i] # <<>>
                             THEN <<VoFresh>> ELSE shadow[i]]
    /\ vo_ret' = <<>>
    /\ shadow_ret' = <<>>
    /\ UNCHANGED pc

VoIterMut ==
    /\ VoCall("iter_mut")
    /\ VoWrites(iter_mut_slots(vec_option))

VoIterSomeIndexMut ==
    /\ VoCall("iter_some_index_mut")
    /\ VoWrites(iter_mut_slots(vec_option))

VoIterRunsMut ==
    /\ VoCall("iter_runs_mut")
    /\ VoWrites(iter_runs_mut_slots(vec_option))

\* set is replace with the old item dropped
VoSet ==
    /\ VoCall("set")
    /\ \E index \in VoIndexes, value \in {<<>>, <<VoFresh>>} :
           /\ vec_option' = replace(vec_option, index, value).vo
           /\ shadow' = [shadow EXCEPT ![index + 1] = value]
    /\ vo_ret' = <<>>
    /\ shadow_ret' = <<>>
    /\ UNCHANGED pc

\* into_iter consumes the vector and yields every item
VoIntoIter ==
    /\ VoCall("into_iter")
    /\ vo_ret' = into_iter(vec_option, 0)
    /\ vec_option' = VecOption_new
    /\ shadow' = <<>>
    /\ shadow_ret' = shadow
    /\ pc' = "done"

\* clone takes &self: the vector stays, the clone is kept next to it
VoClone ==
    /\ VoCall("clone")
    /\ UNCHANGED <<vec_option, shadow, vo_ret, shadow_ret, pc>>

NextVecOption ==
    \/ VoFromVec
    \/ VoNewRepeatNone
    \/ VoFromIter
    \/ VoGetMut
    \/ VoIterMut
    \/ VoIterSomeIndexMut
    \/ VoIterRunsMut
    \/ VoSet
    \/ VoIntoIter
    \/ VoClone
    \/ VoPush
    \/ VoPushSome
    \/ VoPushNone
    \/ VoPop
    \/ VoPopSome
    \/ VoReplace
    \/ VoSetSome
    \/ VoSetNone
    \/ VoCompact
    \/ VoSomeIntoVec

SpecVecOption == InitVecOption /\ [][NextVecOption]_vars

\* ------------------------------------------------------------------------
\* find_disjoint_subgraphs (disjoint.rs)
\* ------------------------------------------------------------------------
InitDisjoint ==
    /\ fn = "find_disjoint_subgraphs"
    /\ graph \in Graphs(MaxVerts, MaxEdges)
    /\ pc = "start"
    /\ InitLocals

InitDisjointLinks ==
    /\ fn = "find_disjoint_subgraphs"
    /\ graph \in Graphs(DjMaxVerts, DjMaxEdges)
    /\ pc = "start"
    /\ InitLocals

\* lines 17-18
DjStart ==
    /\ pc = "start"
    /\ fn = "find_disjoint_subgraphs"
    /\ v_graph' = [x \in Verts |-> NO_GRAPH]
    /\ graph_alias' = <<>>
    /\ ei' = 0
    /\ pc' = "dj_edges"
    /\ UNCHANGED <<libVars, fn, graph, result, topoVars, order, layerVars,
                   next_virt_v, layer_edges_builder, layer_edges,
                   layer_verts, v_pos, sweepVars, gi, remap, num_subgraphs,
                   subgraphs>>

dj_from == iter_edges_flattened(graph)[ei + 1][1]

dj_to == iter_edges_flattened(graph)[ei + 1][2]

\* DjEdgeNewGraph that records the new subgraph for `from` only
DjEdgeNewGraph_FromOnly ==
    /\ pc = "dj_edges"
    /\ ei < num_edges(graph)
    /\ v_graph[dj_from] = NO_GRAPH
    /\ v_graph[dj_to] = NO_GRAPH
    /\ LET new_g == Len(graph_alias)
       IN  /\ graph_alias' = Append(graph_alias, new_g)
           /\ v_graph' = [v_graph EXCEPT ![dj_from] = new_g]
    /\ ei' = ei + 1
    /\ UNCHANGED <<libVars, fn, graph, pc, result, topoVars, order, layerVars,
                   next_virt_v, layer_edges_builder, layer_edges,
                   layer_verts, v_pos, sweepVars, gi, remap, num_subgraphs,
                   subgraphs>>

\* lines 23-29: neither endpoint has a provisional subgraph
DjEdgeNewGraph ==
    /\ pc = "dj_edges"
    /\ ei < num_edges(graph)
    /\ v_graph[dj_from] = NO_GRAPH
    /\ v_graph[dj_to] = NO_GRAPH
    /\ LET new_g == Len(graph_alias)
       IN  /\ graph_alias' = Append(graph_alias, new_g)
           /\ v_graph' = [v_graph EXCEPT ![dj_from] = new_g, ![dj_to] = new_g]
    /\ ei' = ei + 1
    /\ UNCHANGED <<libVars, fn, graph, pc, result, topoVars, order, layerVars,
                   next_virt_v, layer_edges_builder, layer_edges,
                   layer_verts, v_pos, sweepVars, gi, remap, num_subgraphs,
                   subgraphs>>

\* lines 30-33: only `to` has one
DjEdgeAssignFrom ==
    /\ pc = "dj_edges"
    /\ ei < num_edges(graph)
    /\ v_graph[dj_from] = NO_GRAPH
    /\ v_graph[dj_to] # NO_GRAPH
    /\ v_graph' = [v_graph EXCEPT ![dj_from] = v_graph[dj_to]]
    /\ ei' = ei + 1
    /\ UNCHANGED <<libVars, fn, graph, pc, result, topoVars, order, layerVars,
                   next_virt_v, layer_edges_builder, layer_edges,
                   layer_verts, v_pos, sweepVars, gi, graph_alias, remap,
                   num_subgraphs, subgraphs>>

\* lines 34-37: only `from` has one
DjEdgeAssignTo ==
    /\ pc = "dj_edges"
    /\ ei < num_edges(graph)
    /\ v_graph[dj_from] # NO_GRAPH
    /\ v_graph[dj_to] = NO_GRAPH
    /\ v_graph' = [v_graph EXCEPT ![dj_to] = v_graph[dj_from]]
    /\ ei' = ei + 1
    /\ UNCHANGED <<libVars, fn, graph, pc, result, topoVars, order, layerVars,
                   next_virt_v, layer_edges_builder, layer_edges,
                   layer_verts, v_pos, sweepVars, gi, graph_alias, remap,
                   num_subgraphs, subgraphs>>

\* DjEdgeLink that points the lower provisional id at the higher
DjEdgeLink_LowToHigh ==
    /\ pc = "dj_edges"
    /\ ei < num_edges(graph)
    /\ v_graph[dj_from] # NO_GRAPH
    /\ v_graph[dj_to] # NO_GRAPH
    /\ LET g_from == v_graph[dj_from]
           g_to == v_graph[dj_to]
           g_low == IF g_from < g_to THEN g_from ELSE g_to
           g_high == IF g_from < g_to THEN g_to ELSE g_from
       IN  graph_alias' = IF g_from = g_to THEN graph_alias
                          ELSE [graph_alias EXCEPT ![g_low + 1] = g_high]
    /\ ei' = ei + 1
    /\ UNCHANGED <<libVars, fn, graph, pc, result, topoVars, order, layerVars,
                   next_virt_v, layer_edges_builder, layer_edges,
                   layer_verts, v_pos, sweepVars, gi, v_graph, remap,
                   num_subgraphs, subgraphs>>

\* lines 38-52: both have one; different ones are linked, the higher
\* pointing to the lower
DjEdgeLink ==
    /\ pc = "dj_edges"
    /\ ei < num_edges(graph)
    /\ v_graph[dj_from] # NO_GRAPH
    /\ v_graph[dj_to] # NO_GRAPH
    /\ LET g_from == v_graph[dj_from]
           g_to == v_graph[dj_to]
           g_low == IF g_from < g_to THEN g_from ELSE g_to
           g_high == IF g_from < g_to THEN g_to ELSE g_from
       IN  graph_alias' = IF g_from = g_to THEN graph_alias
                          ELSE [graph_alias EXCEPT ![g_high + 1] = g_low]
    /\ ei' = ei + 1
    /\ UNCHANGED <<libVars, fn, graph, pc, result, topoVars, order, layerVars,
                   next_virt_v, layer_edges_builder, layer_edges,
                   layer_verts, v_pos, sweepVars, gi, v_graph, remap,
                   num_subgraphs, subgraphs>>

\* lines 62-63
DjResolveStart ==
    /\ pc = "dj_edges"
    /\ ei = num_edges(graph)
    /\ num_subgraphs' = 0
    /\ remap' = [i \in 1..Len(graph_alias) |-> NO_GRAPH]
    /\ gi' = 0
    /\ pc' = "dj_resolve"
    /\ UNCHANGED <<libVars, fn, graph, result, topoVars, order, layerVars,
                   properVars, sweepVars, v_graph, graph_alias, subgraphs>>

\* lines 65-73: follow graph_alias from `leader` to a fixed point; ok is
\* FALSE when assert!(next <= leader) fails on the way
RECURSIVE find_leader(_, _)
find_leader(alias, leader) ==
    LET next == alias[leader + 1]
    IN  IF next > leader THEN [ok |-> FALSE, leader |-> leader]
        ELSE IF next = leader THEN [ok |-> TRUE, leader |-> leader]
        ELSE find_leader(alias, next)

\* lines 64-86: one iteration of `for i in 0..graph_alias.len()`
DjResolve ==
    /\ pc = "dj_resolve"
    /\ gi < Len(graph_alias)
    /\ LET r == find_leader(graph_alias, gi)
       IN  IF ~r.ok
           THEN /\ pc' = "panic"
                /\ UNCHANGED <<gi, graph_alias, remap, num_subgraphs>>
           ELSE /\ graph_alias' = [graph_alias EXCEPT ![gi + 1] = r.leader]
                /\ IF gi = r.leader
                   THEN /\ remap' = [remap EXCEPT ![gi + 1] = num_subgraphs]
                        /\ num_subgraphs' = num_subgraphs + 1
                   ELSE UNCHANGED <<remap, num_subgraphs>>
                /\ gi' = gi + 1
                /\ pc' = pc
    /\ UNCHANGED <<libVars, fn, graph, result, topoVars, order, layerVars,
                   properVars, sweepVars, v_graph, subgraphs>>

\* lines 90-99: every vertex gets the final number of its leader
DjRemap ==
    /\ pc = "dj_resolve"
    /\ gi = Len(graph_alias)
    /\ LET g_of(vg) == remap[graph_alias[vg + 1] + 1]
       IN  IF \E x \in Verts : v_graph[x] # NO_GRAPH /\ g_of(v_graph[x]) = NO_GRAPH
           THEN /\ pc' = "panic"
                /\ UNCHANGED v_graph
           ELSE /\ v_graph' = [x \in Verts |->
                                 IF v_graph[x] = NO_GRAPH THEN NO_GRAPH
                                 ELSE g_of(v_graph[x])]
                /\ pc' = "dj_build"
    /\ UNCHANGED <<libVars, fn, graph, result, topoVars, order, layerVars,
                   properVars, sweepVars, gi, graph_alias, remap,
                   num_subgraphs, subgraphs>>

\* lines 124-130: output_index is the running sum of verts_per_subgraph
RECURSIVE PrefixSums(_, _)
PrefixSums(counts, sum) ==
    IF counts = <<>> THEN <<sum>>
    ELSE <<sum>> \o PrefixSums(Tail(counts), sum + counts[1])

\* lines 141-147: scatter the vertices, in ascending order, to the write
\* cursor of their subgraph; st is [output_pos, output_values]
RECURSIVE Scatter(_, _, _)
Scatter(st, vg, x) ==
    IF x >= Len(vg) THEN st
    ELSE IF vg[x + 1] = NO_GRAPH THEN Scatter(st, vg, x + 1)
    ELSE LET g == vg[x + 1]
         IN  Scatter([output_pos |->
                          [st.output_pos EXCEPT ![g + 1] = @ + 1],
                      output_values |->
                          set_some(st.output_values, st.output_pos[g + 1], x)],
                     vg, x + 1)

\* lines 102-167: count, index, scatter, convert
DjBuild ==
    /\ pc = "dj_build"
    /\ LET vg == [i \in 1..nv |-> v_graph[i - 1]]
           verts_per_subgraph ==
               [g \in 1..num_subgraphs |->
                   Cardinality({ x \in Verts : v_graph[x] = g - 1 })]
           output_index == PrefixSums(verts_per_subgraph, 0)
           sum == output_index[Len(output_index)]
       IN  \E uninit \in [1..sum -> 0..VoMaxUninit] :
           LET st == Scatter([output_pos |-> output_index,
                              output_values |-> new_repeat_none(sum, uninit)],
                             vg, 0)
               output_values == some_into_vec(st.output_values)
           IN
           IF \/ Len(output_values) # sum
              \/ \E i \in 1..num_subgraphs :
                     st.output_pos[i] # output_index[i + 1]
           THEN /\ pc' = "panic"
                /\ UNCHANGED <<subgraphs, result>>
           ELSE /\ subgraphs' = [index |-> output_index,
                                 values |-> output_values]
                /\ result' = "Ok"
                /\ pc' = "done"
    /\ UNCHANGED <<libVars, fn, graph, topoVars, order, layerVars, properVars,
                   sweepVars, gi, v_graph, graph_alias, remap,
                   num_subgraphs>>

NextDisjoint ==
    \/ DjStart
    \/ DjEdgeNewGraph
    \/ DjEdgeAssignFrom
    \/ DjEdgeAssignTo
    \/ DjEdgeLink
    \/ DjResolveStart
    \/ DjResolve
    \/ DjRemap
    \/ DjBuild

SpecDisjoint == InitDisjoint /\ [][NextDisjoint]_vars

SpecDisjointLinks == InitDisjointLinks /\ [][NextDisjoint]_vars

\* the `to` entries of the edges of es that leave `from`, in order (the list
\* GraphBuilder::edge collects for `from`)
RECURSIVE ToList(_, _)
ToList(es, from) ==
    IF es = <<>> THEN <<>>
    ELSE (IF es[1][1] = from THEN <<es[1][2]>> ELSE <<>>)
             \o ToList(Tail(es), from)

\* Graph::push_to for every entry of an out-list and Graph::finish_from
\* after it, for the out-lists from the i-th on (i counts from 1)
RECURSIVE FromLists(_, _, _)
FromLists(g, lists, i) ==
    IF i > Len(lists) THEN g
    ELSE FromLists(finish_key([g EXCEPT !.values = @ \o lists[i]]), lists, i + 1)

\* the graphs of n vertices in which the vertices of `loops` have a self-loop
\* as their first edge and the other edges are es, in ascending `from` order
LoopGraph(n, loops, es) ==
    FromLists(RampTable_new,
              [i \in 1..n |->
                  (IF i - 1 \in loops THEN <<i - 1>> ELSE <<>>)
                      \o ToList(es, i - 1)],
              1)

\* many provisional subgraphs with few edges: a self-loop on a fresh vertex
\* opens one, every other edge extends or links them
InitAlias ==
    /\ fn = "find_disjoint_subgraphs"
    /\ \E n \in 1..AlMaxVerts, e \in 0..AlMaxExtra :
       \E loops \in SUBSET (0..(n - 1)),
          es \in [1..e -> (0..(n - 1)) \X (0..(n - 1))] :
           /\ \A i \in 1..(e - 1) : es[i][1] <= es[i + 1][1]
           /\ graph = LoopGraph(n, loops, es)
    /\ pc = "start"
    /\ InitLocals

SpecAlias == InitAlias /\ [][NextDisjoint]_vars

Next == TopoNext \/ LayerNext

Spec == Init /\ [][Next]_vars

\* the same functions on acyclic graphs: topo_sort_reverse finds no cycle and
\* no caller has an error to pass on
InitAcyclic ==
    /\ fn = "topo_sort_reverse"
    /\ graph \in ForwardGraphs(AcMaxVerts, AcMaxEdges)
    /\ pc = "start"
    /\ InitLocals

NextAcyclic ==
    \/ TopoStart
    \/ TopoSkipSource
    \/ TopoStartTraversal
    \/ TopoAlreadySeen
    \/ TopoDescend
    \/ TopoVertexDone
    \/ TopoReturnOk
    \/ TopoSortReverseOrder
    \/ LayerNext

SpecAcyclic == InitAcyclic /\ [][NextAcyclic]_vars

\* ------------------------------------------------------------------------
\* min_crossings_core (layering.rs) on its own: the vertices 0..s-1 form the
\* stable layer and s..n-1 the moving one
\* ------------------------------------------------------------------------
InitCore ==
    /\ fn = "min_crossings_core"
    /\ graph = RampTable_new
    /\ pc = "start"
    /\ InitLocals

\* what min_crossings_core does not touch
coreFrame == <<fn, graph, result, topoVars, order, layerVars, ei, next_virt_v,
               layer_edges_builder, layer_edges, layer_verts, sweepVars,
               djVars, transposed, rtVars, builderVars, voVars, pqVars>>

\* the arguments of a call: every vertex of either layer holds a position
\* below the size of its layer (two vertices of a layer can hold the same
\* one, as after a sweep step that ranked only some of them), and every edge
\* joins a stable vertex to a moving one
CoreArgs ==
    /\ fn = "min_crossings_core"
    /\ pc = "start"
    /\ \E n \in 2..CoreMaxVerts, m \in 0..CoreMaxEdges :
       \E s \in 1..(n - 1) :
       \E stable_pos \in [0..(s - 1) -> 0..(s - 1)],
          moving_pos \in [s..(n - 1) -> 0..(n - 1 - s)],
          edges \in [1..m -> (0..(s - 1)) \X (s..(n - 1))] :
           /\ v_pos' = [x \in 0..(n - 1) |->
                            IF x < s THEN stable_pos[x] ELSE moving_pos[x]]
           /\ core_edges' = edges
    /\ old_v_pos' = v_pos'
    /\ pc' = "call"
    /\ UNCHANGED coreFrame

CoreRun ==
    /\ fn = "min_crossings_core"
    /\ pc = "call"
    /\ v_pos' = min_crossings_core(v_pos, core_edges)
    /\ pc' = "done"
    /\ UNCHANGED <<coreFrame, coreVars>>

NextCore == CoreArgs \/ CoreRun

SpecCore == InitCore /\ [][NextCore]_vars

\* ------------------------------------------------------------------------
\* The priority queues (trellis/src/priority_queue.rs, trellis/src/ortho/fpq.rs)
\* PQ.pq[i] of the code is q[i + 1] here.
\* ------------------------------------------------------------------------

left(i) == i * 2 + 1

right(i) == i * 2 + 2

parent(child) == (child - 1) \div 2

Vec_swap(q, i, j) == [q EXCEPT ![i + 1] = q[j + 1], ![j + 1] = q[i + 1]]

\* fn check: TRUE when none of its assertions fails
check(q) == \A i \in 1..(Len(q) - 1) : q[parent(i) + 1] >= q[i + 1]

\* priority_queue.rs lines 34-43: the loop of insert from index i
RECURSIVE PQ_insert_loop(_, _)
PQ_insert_loop(q, i) ==
    IF i > 0
    THEN IF q[parent(i) + 1] >= q[i + 1] THEN q
         ELSE PQ_insert_loop(Vec_swap(q, i, parent(i)), parent(i))
    ELSE q

\* priority_queue.rs lines 30-33
PQ_insert(q, item) == PQ_insert_loop(Append(q, item), Len(q))

\* ortho/fpq.rs lines 45-54: the loop of insert from index i; i is not
\* assigned in the loop
RECURSIVE FPQ_insert_loop(_, _)
FPQ_insert_loop(q, i) ==
    IF i > 0
    THEN IF q[parent(i) + 1] >= q[i + 1] THEN q
         ELSE FPQ_insert_loop(Vec_swap(q, i, parent(i)), i)
    ELSE q

\* ortho/fpq.rs lines 41-44
FPQ_insert(q, item) == FPQ_insert_loop(Append(q, item), Len(q))

\* the loop of remove from index i, the same in both files
\* (priority_queue.rs lines 64-78, ortho/fpq.rs lines 75-89)
RECURSIVE PQ_remove_loop(_, _)
PQ_remove_loop(q, i) ==
    IF left(i) < Len(q) /\ q[i + 1] < q[left(i) + 1]
    THEN PQ_remove_loop(Vec_swap(q, i, left(i)), left(i))
    ELSE IF right(i) < Len(q) /\ q[i + 1] < q[right(i) + 1]
    THEN PQ_remove_loop(Vec_swap(q, i, right(i)), right(i))
    ELSE q

\* remove, the same in both files: the queue it leaves, what it returns, and
\* whether it reaches the call of check
PQ_remove(q) ==
    IF q = <<>> THEN [pq |-> q, ret |-> <<>>, checked |-> FALSE]
    ELSE IF Len(q) = 1 THEN [pq |-> <<>>, ret |-> <<q[1]>>, checked |-> FALSE]
    ELSE LET swapped == Vec_swap(q, 0, Len(q) - 1)
             popped == SubSeq(swapped, 1, Len(q) - 1)
         IN  [pq |-> PQ_remove_loop(popped, 0),
              ret |-> <<swapped[Len(q)]>>,
              checked |-> TRUE]

PqImpls == {"priority_queue::PQ", "ortho::fpq::PQ"}

\* PQ::new or PQ::with_capacity of either file: an empty queue
InitPQ ==
    /\ fn \in PqImpls
    /\ graph = RampTable_new
    /\ pc = "ops"
    /\ InitLocals

\* what no PQ call touches
pqFrame == <<fn, graph, pc, result, topoVars, order, layerVars, properVars,
             sweepVars, djVars, transposed, rtVars, builderVars, voVars,
             coreVars>>

\* the guard of every call, and what every call records; a failed assertion
\* has ended the program
PqCall(impl, name) ==
    /\ fn = impl
    /\ pc = "ops"
    /\ ~pq_panic
    /\ pq_ops < PqMaxOps
    /\ pq_op' = name
    /\ pq_ops' = pq_ops + 1
    /\ pq_before' = pq
    /\ UNCHANGED pqFrame

PQInsert ==
    /\ PqCall("priority_queue::PQ", "insert")
    /\ \E item \in 1..PqMaxItem : pq' = PQ_insert(pq, item)
    /\ pq_panic' = ~check(pq')
    /\ UNCHANGED pq_ret

PQRemove ==
    /\ PqCall("priority_queue::PQ", "remove")
    /\ pq' = PQ_remove(pq).pq
    /\ pq_ret' = PQ_remove(pq).ret
    /\ pq_panic' = (PQ_remove(pq).checked /\ ~check(pq'))

FPQInsert ==
    /\ PqCall("ortho::fpq::PQ", "insert")
    /\ \E item \in 1..PqMaxItem : pq' = FPQ_insert(pq, item)
    /\ pq_panic' = ~check(pq')
    /\ UNCHANGED pq_ret

FPQRemove ==
    /\ PqCall("ortho::fpq::PQ", "remove")
    /\ pq' = PQ_remove(pq).pq
    /\ pq_ret' = PQ_remove(pq).ret
    /\ pq_panic' = (PQ_remove(pq).checked /\ ~check(pq'))

\* priority_queue.rs lines 25-27
PQClear ==
    /\ PqCall("priority_queue::PQ", "clear")
    /\ pq' = <<>>
    /\ UNCHANGED <<pq_ret, pq_panic>>

\* ortho/fpq.rs lines 36-38
FPQClear ==
    /\ PqCall("ortho::fpq::PQ", "clear")
    /\ pq' = <<>>
    /\ UNCHANGED <<pq_ret, pq_panic>>

NextPQ ==
    \/ PQInsert
    \/ PQRemove
    \/ PQClear
    \/ FPQInsert
    \/ FPQRemove
    \/ FPQClear

SpecPQ == InitPQ /\ [][NextPQ]_vars

\* ------------------------------------------------------------------------
\* The "simple tree" case of create_proper_graph_test (layering.rs, testing.rs)
\* ------------------------------------------------------------------------

\* GraphBuilder::path over every path in turn: one edge per window of two
RECURSIVE PathEdges(_)
PathEdges(paths) ==
    IF paths = <<>> THEN <<>>
    ELSE [i \in 1..(Len(paths[1]) - 1) |-> <<paths[1][i], paths[1][i + 1]>>]
             \o PathEdges(Tail(paths))

\* GraphBuilder::build: the to lists in ascending `from` order, an empty
\* list for every vertex without one, up to the highest vertex mentioned
RECURSIVE BuildFrom(_, _, _, _)
BuildFrom(g, es, from, n) ==
    IF from >= n THEN g
    ELSE BuildFrom(finish_key([g EXCEPT !.values = @ \o ToList(es, from)]),
                   es, from + 1, n)

graph_from_paths(paths) ==
    LET es == PathEdges(paths)
        n == IF es = <<>> THEN 0
             ELSE MaxOf({ es[i][1] : i \in 1..Len(es) }
                        \cup { es[i][2] : i \in 1..Len(es) }) + 1
    IN  BuildFrom(RampTable_new, es, 0, n)

SimpleTree ==
    graph_from_paths(<< <<1, 10, 11, 12, 13, 14>>,
                        <<1, 20, 21, 22, 23, 24>>,
                        <<1, 14>>,
                        <<1, 24>>,
                        <<10, 23>> >>)

InitSimpleTree ==
    /\ fn = "topo_sort_reverse"
    /\ graph = SimpleTree
    /\ pc = "start"
    /\ InitLocals

\* the graph has edges and no cycle: neither the cycle error nor the early
\* return of create_proper_graph for a graph without edges can be taken
NextSimpleTree ==
    \/ TopoStart
    \/ TopoSkipSource
    \/ TopoStartTraversal
    \/ TopoAlreadySeen
    \/ TopoDescend
    \/ TopoVertexDone
    \/ TopoReturnOk
    \/ TopoSortReverseOrder
    \/ LayerStart
    \/ LayerAssign
    \/ LayerMapReturn
    \/ ProperStart
    \/ ProperEdge
    \/ ProperFinish
    \/ MinCrossingsUpStep
    \/ MinCrossingsDownStart
    \/ MinCrossingsDownStep
    \/ ProperReturn

SpecSimpleTree == InitSimpleTree /\ [][NextSimpleTree]_vars

\* ------------------------------------------------------------------------
\* topo_sort on the small graphs and on the cases "tree", "linear path" and
\* "linear path reversed" of topo_sort_test (topo_sort.rs)
\* ------------------------------------------------------------------------
TopoTree == graph_from_paths(<< <<0, 1, 2>>, <<0, 3, 4>>, <<0, 5, 6>> >>)

TopoPath == graph_from_paths(<< <<1, 2, 3, 4, 5>> >>)

TopoPathReversed == graph_from_paths(<< <<5, 4, 3, 2, 1>> >>)

InitTopoSort ==
    /\ fn = "topo_sort_reverse"
    /\ graph \in Graphs(MaxVerts, MaxEdges)
                  \cup {TopoTree, TopoPath, TopoPathReversed}
    /\ pc = "start"
    /\ InitLocals

SpecTopoSort == InitTopoSort /\ [][TopoNext]_vars

\* ------------------------------------------------------------------------
\* Graph notions the properties are stated with
\* ------------------------------------------------------------------------
Edges(g) == { iter_edges_flattened(g)[e] : e \in 1..num_edges(g) }

Succ(g, S) == { e[2] : e \in { d \in Edges(g) : d[1] \in S } }

\* the vertices reached from x by a path of at least one edge
RECURSIVE Closure(_, _)
Closure(g, R) ==
    IF Succ(g, R) \subseteq R THEN R ELSE Closure(g, R \cup Succ(g, R))

ReachableFrom(g, x) == Closure(g, Succ(g, {x}))

HasCycle(g) == \E x \in 0..(num_verts(g) - 1) : x \in ReachableFrom(g, x)

NonIsolated(g) == { e[1] : e \in Edges(g) } \cup { e[2] : e \in Edges(g) }

NoDuplicates(s) == \A i, j \in 1..Len(s) : s[i] = s[j] => i = j

Before(s, a, b) == \E i, j \in 1..Len(s) : i < j /\ s[i] = a /\ s[j] = b

\* ------------------------------------------------------------------------
\* Topological sort
\* ------------------------------------------------------------------------

\* C1: on an acyclic graph topo_sort_reverse returns an order in which, for
\* every edge f -> t, t comes before f; topo_sort returns Ok with the same
\* list reversed, in which f comes before t.
C1_TopoOrder ==
    /\ pc = "topo_ok" =>
           \A e \in Edges(graph) : Before(topo_order, e[2], e[1])
    /\ (pc = "done" /\ fn = "topo_sort" /\ ~HasCycle(graph)) =>
           /\ result = "Ok"
           /\ Len(order) = Len(topo_order)
           /\ \A i \in 1..Len(order) : order[i] = topo_order[Len(order) + 1 - i]
           /\ \A e \in Edges(graph) : Before(order, e[1], e[2])

C1_Witness ==
    /\ pc = "done"
    /\ fn = "topo_sort"
    /\ result = "Ok"
    /\ num_edges(graph) >= 3
    /\ order # topo_order

\* C2: on a graph with a directed cycle, a self-loop included,
\* topo_sort_reverse never returns an order and topo_sort returns
\* Err(FoundCycle).
C2_CycleDetected ==
    /\ pc = "topo_ok" => ~HasCycle(graph)
    /\ (pc = "done" /\ fn = "topo_sort" /\ HasCycle(graph)) =>
           result = "Err" /\ order = <<>>

C2_Witness ==
    /\ pc = "done"
    /\ fn = "topo_sort"
    /\ result = "Err"
    /\ \E e \in Edges(graph) : e[1] = e[2]

\* C8: a successful topological sort lists every vertex that has an edge
\* exactly once and lists no isolated vertex.
C8_TopoOutputSet ==
    /\ pc = "topo_ok" =>
           /\ NoDuplicates(topo_order)
           /\ Range(topo_order) = NonIsolated(graph)
    /\ (pc = "done" /\ fn = "topo_sort" /\ result = "Ok") =>
           /\ NoDuplicates(order)
           /\ Range(order) = NonIsolated(graph)

C8_Witness ==
    /\ pc = "done"
    /\ fn = "topo_sort"
    /\ result = "Ok"
    /\ num_edges(graph) >= 2
    /\ \E x \in Verts : x \notin NonIsolated(graph)

\* ------------------------------------------------------------------------
\* Layering and the proper graph
\* ------------------------------------------------------------------------

\* the layer assignment is complete
LayersAssigned ==
    \/ fn = "create_layer_map" /\ pc = "done" /\ result = "Ok"
    \/ /\ fn = "create_proper_graph"
       /\ pc \in {"proper_loop", "sweep_up", "sweep_down", "done"}
       /\ result # "Err"
       /\ topo_order # <<>>

\* layer_edges, layer_verts and v_pos are built
ProperBuilt ==
    /\ fn = "create_proper_graph"
    /\ pc \in {"sweep_up", "sweep_down", "done"}
    /\ result # "Err"
    /\ topo_order # <<>>

MaxLayer == IF nv = 0 THEN 0 ELSE MaxOf({ v_layer[x] : x \in Verts })

\* C3: on an acyclic graph every edge f -> t has v_layer[f] > v_layer[t], and
\* num_layers = max(v_layer) + 1 >= 1, which is 1 for the empty graph.
C3_LayeringInvariant ==
    LayersAssigned =>
        /\ \A e \in Edges(graph) : v_layer[e[1]] > v_layer[e[2]]
        /\ num_layers = MaxLayer + 1
        /\ num_layers >= 1
        /\ nv = 0 => num_layers = 1

C3_Witness ==
    /\ fn = "create_layer_map"
    /\ pc = "done"
    /\ result = "Ok"
    /\ num_layers >= 3

\* the number of edges of the longest walk that starts in S and uses the
\* edges E, counted from k and cut off at n edges
RECURSIVE LongestWalk(_, _, _, _)
LongestWalk(E, S, k, n) ==
    LET ends == { e[2] : e \in { d \in E : d[1] \in S } }
    IN  IF ends = {} \/ k >= n THEN k ELSE LongestWalk(E, ends, k + 1, n)

\* the number of edges of the longest path from x in an acyclic graph
LongestPathFrom(E, x) == LongestWalk(E, {x}, 0, nv)

\* C9: v_layer[v] is the number of edges of the longest path from v: 0 for a
\* vertex without out-edges, else 1 + the maximum over its out-neighbours.
C9_LongestPathLayering ==
    LayersAssigned =>
        LET E == Edges(graph)
        IN  \A x \in Verts :
                /\ v_layer[x] = LongestPathFrom(E, x)
                /\ edges_from(graph, x) = <<>> => v_layer[x] = 0
                /\ edges_from(graph, x) # <<>> =>
                       v_layer[x] =
                           1 + MaxOf({ v_layer[e[2]] : e \in { d \in E : d[1] = x } })

C9_Witness ==
    /\ LayersAssigned
    /\ fn = "create_proper_graph"
    /\ pc = "done"
    /\ \E x \in Verts : v_layer[x] >= 2
    /\ \E y \in Verts : v_layer[y] = 0 /\ y \notin NonIsolated(graph)
    /\ \E x \in Verts : Cardinality({ v_layer[t] : t \in Succ(graph, {x}) }) >= 2

LayerVerts(L) == Range(entry_values(layer_verts, L))

LayerEdges(L) == Range(entry_values(layer_edges, L))

\* C4: every pair (from, to) of layer_edges[L] has `to` in layer_verts[L] and
\* `from` in layer_verts[L + 1]; a vertex is listed in one layer only.
C4_ProperSpan ==
    ProperBuilt =>
        /\ NoDuplicates(layer_verts.values)
        /\ \A L \in 0..(num_keys(layer_edges) - 1) :
               \A pair \in LayerEdges(L) :
                   /\ L + 1 < num_keys(layer_verts)
                   /\ pair[2] \in LayerVerts(L)
                   /\ pair[1] \in LayerVerts(L + 1)

C4_Witness ==
    /\ ProperBuilt
    /\ pc = "done"
    /\ num_keys(layer_edges) >= 2
    /\ \E L \in 0..(num_keys(layer_edges) - 1) :
           \E pair \in LayerEdges(L) : pair[1] >= nv /\ pair[2] >= nv

FlatEdges == iter_edges_flattened(graph)

SpanOf(e) == v_layer[FlatEdges[e][1]] - v_layer[FlatEdges[e][2]]

\* the number of virtual vertices needed by the first n edges
RECURSIVE VirtualsBefore(_)
VirtualsBefore(n) ==
    IF n = 0 THEN 0 ELSE VirtualsBefore(n - 1) + (SpanOf(n) - 1)

\* the j-th vertex of the chain that replaces edge e: from, the virtual
\* vertices in allocation order, to
ChainNode(e, j) ==
    IF j = 0 THEN FlatEdges[e][1]
    ELSE IF j = SpanOf(e) THEN FlatEdges[e][2]
    ELSE nv + VirtualsBefore(e - 1) + (j - 1)

\* the ids >= num_verts in the order in which the builder received them
VirtualsPushed ==
    LET ids == [i \in 1..Len(layer_verts_builder) |-> layer_verts_builder[i][2]]
        RECURSIVE Keep(_)
        Keep(i) == IF i > Len(ids) THEN <<>>
                   ELSE (IF ids[i] >= nv THEN <<ids[i]>> ELSE <<>>) \o Keep(i + 1)
    IN  Keep(1)

\* C5: an edge of span 1 is stored as it is in layer_edges[v_layer[to]]; an
\* edge of span s > 1 becomes a chain of s layer edges through s - 1 virtual
\* vertices, one in each layer strictly between its endpoints.  Virtual ids
\* start at num_verts, are allocated in increasing order without gaps and
\* belong to one original edge each, so that the proper graph has
\* num_verts + sum(s - 1) vertices and num_edges + sum(s - 1) edges.
C5_VirtualChains ==
    ProperBuilt =>
        /\ \A e \in 1..num_edges(graph) :
               /\ SpanOf(e) >= 1
               /\ \A j \in 0..(SpanOf(e) - 1) :
                      <<ChainNode(e, j), ChainNode(e, j + 1)>>
                          \in LayerEdges(v_layer[FlatEdges[e][1]] - 1 - j)
               /\ \A j \in 1..(SpanOf(e) - 1) :
                      /\ ChainNode(e, j) >= nv
                      /\ \A L \in 0..(num_keys(layer_verts) - 1) :
                             ChainNode(e, j) \in LayerVerts(L)
                                 <=> L = v_layer[FlatEdges[e][1]] - j
        /\ VirtualsPushed =
               [i \in 1..VirtualsBefore(num_edges(graph)) |-> nv + i - 1]
        /\ next_virt_v = nv + VirtualsBefore(num_edges(graph))
        /\ Len(layer_edges.values) =
               num_edges(graph) + VirtualsBefore(num_edges(graph))
        /\ Len(layer_verts.values) =
               Cardinality(NonIsolated(graph)) + VirtualsBefore(num_edges(graph))
        /\ \A x \in nv..(next_virt_v - 1) :
               /\ Cardinality({ i \in 1..Len(layer_edges.values) :
                                  layer_edges.values[i][2] = x }) = 1
               /\ Cardinality({ i \in 1..Len(layer_edges.values) :
                                  layer_edges.values[i][1] = x }) = 1

C5_Witness ==
    /\ ProperBuilt
    /\ pc = "done"
    /\ \E e \in 1..num_edges(graph) : SpanOf(e) >= 3
    /\ \E e \in 1..num_edges(graph) : SpanOf(e) = 1

\* C10: create_layer_map and create_proper_graph return Err(FoundCycle)
\* exactly on the graphs on which the topological sort fails, the graphs with
\* a cycle, and then have assigned no layer, built no proper graph and run no
\* sweep; on an acyclic graph they return Ok.
C10_CyclePropagated ==
    (pc = "done" /\ fn \in {"create_layer_map", "create_proper_graph"}) =>
        /\ result = "Err" <=> HasCycle(graph)
        /\ result = "Ok" <=> ~HasCycle(graph)
        /\ result = "Err" =>
               /\ v_layer = <<>>
               /\ num_layers = 0
               /\ layer_verts_builder = <<>>
               /\ layer_edges_builder = <<>>
               /\ layer_edges = RampTable_new
               /\ layer_verts = RampTable_new
               /\ v_pos = <<>>
               /\ sweeps = <<>>

C10_Witness ==
    /\ pc = "done"
    /\ fn = "create_proper_graph"
    /\ result = "Err"
    /\ \A e \in Edges(graph) : e[1] # e[2]

\* ------------------------------------------------------------------------
\* Crossing sweeps
\* ------------------------------------------------------------------------

\* the steps of one min_crossings_up over n boundaries
UpSteps(n) == [i \in 1..n |-> <<"up", i - 1>>]

\* the steps of one min_crossings_down over n boundaries
DownSteps(n) == [i \in 1..n |-> <<"down", n - i>>]

\* C11 as amended: a create_proper_graph run on an acyclic graph with at
\* least one edge calls min_crossings_up once and then min_crossings_down
\* once, each visiting every boundary once, and nothing more; a run on a graph
\* without edges or with a cycle calls neither.
C11_UpThenDown ==
    /\ sweep_calls \in {<<>>, <<"up">>, <<"up", "down">>}
    /\ (pc = "done" /\ fn = "create_proper_graph") =>
           IF result = "Ok" /\ topo_order # <<>>
           THEN /\ sweep_calls = <<"up", "down">>
                /\ sweeps = UpSteps(num_keys(layer_edges))
                                \o DownSteps(num_keys(layer_edges))
           ELSE /\ sweep_calls = <<>>
                /\ sweeps = <<>>

C11_Witness ==
    /\ pc = "done"
    /\ fn = "create_proper_graph"
    /\ sweep_calls = <<"up", "down">>
    /\ Len(sweeps) >= 4

\* C11 as stated: a create_proper_graph run that lays out a graph performs
\* one min_crossings_down sweep and then one min_crossings_up sweep, and no
\* further sweep.
C11_DownThenUp ==
    (pc = "done" /\ fn = "create_proper_graph" /\ result = "Ok"
         /\ topo_order # <<>>) =>
        /\ sweep_calls = <<"down", "up">>
        /\ sweeps = DownSteps(num_keys(layer_edges))
                        \o UpSteps(num_keys(layer_edges))

\* ------------------------------------------------------------------------
\* the log of boundaries is a prefix of: every boundary upward by
\* min_crossings_up, then every boundary downward by min_crossings_down
SweepOrder ==
    LET all == UpSteps(num_keys(layer_edges)) \o DownSteps(num_keys(layer_edges))
    IN  \E k \in 0..Len(all) : sweeps = SubSeq(all, 1, k)

\* v_pos changes at most on the vertices of layer L
OnlyLayerMoves(L) ==
    \A x \in DOMAIN v_pos : x \notin LayerVerts(L) => v_pos'[x] = v_pos[x]

\* C12: the step of min_crossings_up for the boundary between layers L and
\* L+1 leaves v_pos of layer L as it is and reassigns layer L+1 only, for
\* L = 0, 1, ... upward; the step of min_crossings_down, from the top
\* boundary down, leaves layer L+1 as it is and reassigns layer L only.
C12_SweepFrame ==
    [][/\ (pc = "sweep_up" /\ sweep_layer' = sweep_layer + 1) =>
              /\ OnlyLayerMoves(sweep_layer + 1)
              /\ sweeps' = Append(sweeps, <<"up", sweep_layer>>)
       /\ (pc = "sweep_down" /\ sweep_layer' = sweep_layer - 1) =>
              /\ OnlyLayerMoves(sweep_layer - 1)
              /\ sweeps' = Append(sweeps, <<"down", sweep_layer - 1>>)
       /\ SweepOrder']_vars

\* ------------------------------------------------------------------------
\* Disjoint subgraphs
\* ------------------------------------------------------------------------
Occurrences(s, x) == Cardinality({ i \in 1..Len(s) : s[i] = x })

\* the subgraphs whose vertex list holds x
SubgraphsOf(x) ==
    { k \in 0..(num_keys(subgraphs) - 1) : x \in Range(entry_values(subgraphs, k)) }

\* C6: the subgraph table is a partition of the vertices that have an edge:
\* each of them is listed once, in one subgraph; an isolated vertex is
\* listed nowhere.
C6_DisjointPartition ==
    (pc = "done" /\ fn = "find_disjoint_subgraphs") =>
        /\ subgraphs.index[1] = 0
        /\ \A k \in 1..num_keys(subgraphs) :
               subgraphs.index[k] <= subgraphs.index[k + 1]
        /\ subgraphs.index[Len(subgraphs.index)] = Len(subgraphs.values)
        /\ \A x \in Verts :
               IF x \in NonIsolated(graph)
               THEN /\ Occurrences(subgraphs.values, x) = 1
                    /\ Cardinality(SubgraphsOf(x)) = 1
               ELSE /\ Occurrences(subgraphs.values, x) = 0
                    /\ SubgraphsOf(x) = {}
        /\ Range(subgraphs.values) \subseteq Verts

C6_Witness ==
    /\ pc = "done"
    /\ fn = "find_disjoint_subgraphs"
    /\ \E x \in Verts : x \notin NonIsolated(graph)
    /\ \E k \in 0..(num_keys(subgraphs) - 1) : Len(entry_values(subgraphs, k)) >= 2

\* the vertices joined to x by a path of edges taken in either direction
RECURSIVE WeakClosure(_, _)
WeakClosure(g, R) ==
    LET N == { e[2] : e \in { d \in Edges(g) : d[1] \in R } }
               \cup { e[1] : e \in { d \in Edges(g) : d[2] \in R } }
    IN  IF N \subseteq R THEN R ELSE WeakClosure(g, R \cup N)

WeakComponent(g, x) == WeakClosure(g, {x})

\* C7: two vertices that have an edge are in the same subgraph exactly when
\* they are weakly connected, so no edge joins two subgraphs and there are as
\* many subgraphs as weakly-connected components that contain an edge.
C7_WeakComponents ==
    (pc = "done" /\ fn = "find_disjoint_subgraphs") =>
        /\ \A x, y \in NonIsolated(graph) :
               (SubgraphsOf(x) = SubgraphsOf(y)) <=> (y \in WeakComponent(graph, x))
        /\ \A e \in Edges(graph) : SubgraphsOf(e[1]) = SubgraphsOf(e[2])
        /\ num_keys(subgraphs) =
               Cardinality({ WeakComponent(graph, x) : x \in NonIsolated(graph) })

\* ------------------------------------------------------------------------
\* Transpose
\* ------------------------------------------------------------------------

\* how often the edge f -> t occurs in g
EdgeCount(g, f, t) ==
    Cardinality({ e \in 1..num_edges(g) : iter_edges_flattened(g)[e] = <<f, t>> })

\* index starts at 0, does not decrease and ends at the number of values
IndexWellFormed(t) ==
    /\ t.index[1] = 0
    /\ \A k \in 1..num_keys(t) : t.index[k] <= t.index[k + 1]
    /\ t.index[Len(t.index)] = Len(t.values)

\* C13: the transpose of a well-formed graph has the same numbers of vertices
\* and edges, is well-formed and has t -> f as often as the graph has f -> t;
\* the transpose of the transpose has the out-neighbour sets of the graph.
C13_Transpose ==
    /\ fn = "transpose" => pc # "panic"
    /\ Len(transposed) >= 1 =>
           LET t == transposed[1]
           IN  /\ num_verts(t) = num_verts(graph)
               /\ num_edges(t) = num_edges(graph)
               /\ IndexWellFormed(t)
               /\ \A e \in 1..Len(t.values) : t.values[e] \in Verts
               /\ \A f, x \in Verts : EdgeCount(t, x, f) = EdgeCount(graph, f, x)
    /\ Len(transposed) >= 2 =>
           LET tt == transposed[2]
           IN  /\ num_verts(tt) = num_verts(graph)
               /\ IndexWellFormed(tt)
               /\ \A x \in Verts :
                      Range(edges_from(tt, x)) = Range(edges_from(graph, x))

C13_Witness ==
    /\ pc = "done"
    /\ Len(transposed) = 2
    /\ transposed[2] # graph
    /\ \E f, x \in Verts : f # x /\ EdgeCount(graph, f, x) >= 2
\* ------------------------------------------------------------------------
\* RampTable
\* ------------------------------------------------------------------------

\* what holds of the table after any sequence of operations; keys are counted
\* from the last clear
RampTableShape ==
    fn = "RampTable" =>
        /\ table.index[1] = 0
        /\ \A k \in 1..num_keys(table) : table.index[k] <= table.index[k + 1]
        /\ table.index[num_keys(table) + 1] <= Len(table.values)
        /\ rt_pending = <<>> =>
               table.index[num_keys(table) + 1] = Len(table.values)
        /\ num_keys(table) = Len(rt_entries)
        /\ \A k \in 0..(num_keys(table) - 1) :
               entry_values(table, k) = rt_entries[k + 1]
        /\ rt_op = "finish_key" => rt_ret = num_keys(table) - 1

\* what holds of one operation other than clear
RampTableStep ==
    /\ rt_op' \in {"push_value", "finish_key", "push_entry_copy",
                 "push_entry_clone", "push_entry_extend"} =>
           \A k \in 0..(num_keys(table) - 1) :
               entry_values(table', k) = entry_values(table, k)
    /\ rt_op' = "finish_key" =>
           /\ rt_ret' = num_keys(table)
           /\ num_keys(table') = num_keys(table) + 1

\* C14: after any sequence of push_value, finish_key, push_entry_copy and
\* clear, index starts at 0, does not decrease and ends at or below the number
\* of values, at it when nothing is pending; finish_key returns the previous
\* number of keys; the slice of key k is what was pushed for it, in push
\* order; later pushes and finish_key calls leave earlier slices alone.
C14_RampTableOps == []RampTableShape /\ [][RampTableStep]_vars

C14_Witness ==
    /\ fn = "RampTable"
    /\ rt_op = "finish_key"
    /\ rt_ret = 2
    /\ Len(rt_entries[2]) >= 2
    /\ Len(table.values) = 3
\* ------------------------------------------------------------------------
\* RampTableBuilder
\* ------------------------------------------------------------------------

\* the values pushed with key k, in push order
RECURSIVE PushedWith(_, _)
PushedWith(its, k) ==
    IF its = <<>> THEN <<>>
    ELSE (IF its[1][1] = k THEN <<its[1][2]>> ELSE <<>>)
             \o PushedWith(Tail(its), k)

\* C15: whatever the order of the keys pushed, finish returns a well-formed
\* table of max key + 1 keys (none when nothing was pushed) in which the slice
\* of key k is the values pushed with k, in push order, and is empty for a key
\* never pushed.
C15_BuilderFinish ==
    (fn = "RampTableBuilder" /\ pc = "done") =>
        /\ IndexWellFormed(table)
        /\ num_keys(table) =
               IF builder_items = <<>> THEN 0
               ELSE MaxOf({ builder_items[i][1] : i \in 1..Len(builder_items) }) + 1
        /\ \A k \in 0..(num_keys(table) - 1) :
               entry_values(table, k) = PushedWith(builder_items, k)
        /\ Len(table.values) = Len(builder_items)

C15_Witness ==
    /\ fn = "RampTableBuilder"
    /\ pc = "done"
    /\ Len(builder_items) >= 4
    /\ \E i \in 1..(Len(builder_items) - 1) : builder_items[i][1] > builder_items[i + 1][1]
    /\ \E k \in 0..(num_keys(table) - 1) : entry_values(table, k) = <<>>
    /\ \E k \in 0..(num_keys(table) - 1) : Len(entry_values(table, k)) >= 2

\* ------------------------------------------------------------------------
\* VecOption
\* ------------------------------------------------------------------------

\* the present items from slot i on (i counts from 1), in order
RECURSIVE KeepPresent(_, _)
KeepPresent(vo, i) ==
    IF i > Len(vo.present) THEN <<>>
    ELSE (IF vo.present[i] THEN <<vo.vec[i]>> ELSE <<>>)
             \o KeepPresent(vo, i + 1)

\* C16: under any sequence of push, push_some, push_none, pop, pop_some,
\* replace, set_some and set_none the buffer and the bitmap have the same
\* length, no pop panics, and len, is_empty, get_copy at every index, iter and
\* the value the last operation returned are those of the Vec<Option<T>> put
\* through the same sequence.
C16_VecOptionRefines ==
    fn = "VecOption" =>
        /\ pc # "panic"
        /\ Len(vec_option.vec) = Len(vec_option.present)
        /\ VecOption_len(vec_option) = Len(shadow)
        /\ VecOption_is_empty(vec_option) = (shadow = <<>>)
        /\ \A index \in 0..(Len(shadow) - 1) :
               get_copy(vec_option, index) = shadow[index + 1]
        /\ VecOption_iter(vec_option) = shadow
        /\ vo_ret = shadow_ret

\* four operations ending in a pop_some that skipped a None whose slot held a
\* stale value, and returned a value
C16_Witness ==
    /\ fn = "VecOption"
    /\ vo_ops = VoMaxOps
    /\ vo_op = "pop_some"
    /\ vo_ret # <<>>
    /\ Len(vo_before.vec) >= Len(vec_option.vec) + 2
    /\ \E i \in 1..Len(vo_before.vec) :
           ~vo_before.present[i] /\ vo_before.vec[i] # 0

\* C17: after compact the vector holds exactly the values that were present
\* before, in their order, all of them Some, and its length is their number;
\* some_into_vec returns that sequence.
C17_Compact ==
    /\ (fn = "VecOption" /\ vo_op = "compact") =>
           /\ vec_option.vec = KeepPresent(vo_before, 1)
           /\ Len(vec_option.present) = Len(vec_option.vec)
           /\ \A i \in 1..Len(vec_option.present) : vec_option.present[i]
           /\ VecOption_len(vec_option) =
                  Cardinality({ i \in 1..Len(vo_before.present) : vo_before.present[i] })
           /\ \A i \in 1..Len(vec_option.vec) :
                  get_copy(vec_option, i - 1) = <<KeepPresent(vo_before, 1)[i]>>
    /\ (fn = "VecOption" /\ vo_op = "some_into_vec") =>
           vo_ret = KeepPresent(vo_before, 1)

\* a compact that moved two values over a None
C17_Witness ==
    /\ fn = "VecOption"
    /\ vo_op = "compact"
    /\ Len(vec_option.vec) >= 2
    /\ ~vo_before.present[1]
    /\ Len(vo_before.vec) > Len(vec_option.vec)

\* ------------------------------------------------------------------------
\* The simple tree: paths 1-10-11-12-13-14 and 1-20-21-22-23-24, edges 1-14,
\* 1-24 and 10-23
\* ------------------------------------------------------------------------

AllLayerEdges == { layer_edges.values[i] : i \in 1..Len(layer_edges.values) }

\* from the virtual vertex x up its chain: the vertex of the original graph
\* the chain hangs from, and the virtual vertices passed, x included
RECURSIVE ChainUp(_, _)
ChainUp(x, n) ==
    LET above == (CHOOSE p \in AllLayerEdges : p[2] = x)[1]
    IN  IF above < nv THEN [top |-> above, count |-> n]
        ELSE ChainUp(above, n + 1)

\* the lengths of the virtual chains that run from `from` down to `to`
VirtualsBetween(from, to) ==
    { ChainUp(p[1], 1).count :
        p \in { q \in AllLayerEdges :
                  q[2] = to /\ q[1] >= nv /\ ChainUp(q[1], 1).top = from } }

\* C18 as stated: v_layer[14] is 0, v_layer[1] is the length of the longest
\* path from 1, and the edge 1-14 is replaced by exactly 3 virtual vertices.
C18_ThreeVirtuals ==
    /\ (graph = SimpleTree /\ LayersAssigned) =>
           /\ v_layer[14] = 0
           /\ v_layer[1] = LongestPathFrom(Edges(graph), 1)
    /\ (graph = SimpleTree /\ ProperBuilt) => VirtualsBetween(1, 14) = {3}

\* C18, amended: v_layer[14] is 0, v_layer[1] is the length of the longest
\* path from 1, which is 5, and the edge 1-14, of span 5, is replaced by
\* exactly 4 virtual vertices.
C18_SimpleTree ==
    /\ (graph = SimpleTree /\ LayersAssigned) =>
           /\ v_layer[14] = 0
           /\ v_layer[1] = LongestPathFrom(Edges(graph), 1)
           /\ v_layer[1] = 5
    /\ (graph = SimpleTree /\ ProperBuilt) => VirtualsBetween(1, 14) = {4}

C18_Witness ==
    /\ graph = SimpleTree
    /\ ProperBuilt
    /\ pc = "done"
    /\ v_layer[1] - v_layer[14] = 5
    /\ <<1, 14>> \in Edges(graph)
    /\ VirtualsBetween(1, 14) # {}

\* ------------------------------------------------------------------------
\* min_crossings_core
\* ------------------------------------------------------------------------

CoreDone == fn = "min_crossings_core" /\ pc = "done"

\* the moving vertices that have an edge
CoreMoving == { core_edges[i][2] : i \in 1..Len(core_edges) }

\* the mean of the positions, before the call, of the stable neighbours of x,
\* one per edge, in thousandths as the f32 arithmetic of the call yields them
QuantizedBarycenter(x) ==
    LET mine == { i \in 1..Len(core_edges) : core_edges[i][2] = x }
        pos_sum == SumSeq([i \in 1..Len(core_edges) |->
                              IF i \in mine THEN old_v_pos[core_edges[i][1]]
                              ELSE 0])
    IN  scaled_avg(pos_sum, Cardinality(mine))

\* C19: after the call the k moving vertices with an edge hold the positions
\* 0..k-1, each once, and a vertex with a strictly smaller quantized
\* barycenter holds a strictly smaller position.
C19_BarycenterOrder ==
    CoreDone =>
        LET k == Cardinality(CoreMoving)
            bary == [x \in CoreMoving |-> QuantizedBarycenter(x)]
        IN  /\ { v_pos[x] : x \in CoreMoving } = 0..(k - 1)
            /\ \A x, y \in CoreMoving : v_pos[x] = v_pos[y] => x = y
            /\ \A x, y \in CoreMoving :
                   bary[x] < bary[y] => v_pos[x] < v_pos[y]

\* two moving vertices with edges whose order the call reverses: the one
\* with the smaller id stood first and has the larger barycenter, which is
\* not a whole number
C19_Witness ==
    /\ CoreDone
    /\ Cardinality(CoreMoving) >= 2
    /\ \E x, y \in CoreMoving :
           /\ x < y
           /\ QuantizedBarycenter(x) > QuantizedBarycenter(y)
           /\ QuantizedBarycenter(x) % 1000 # 0
           /\ old_v_pos[x] < old_v_pos[y]
           /\ v_pos[x] > v_pos[y]

\* C20: of two moving vertices with equal quantized barycenters the one that
\* held the smaller position before the call holds the smaller one after it.
C20_TiesKeepOrder ==
    CoreDone =>
        \A x, y \in CoreMoving :
            (QuantizedBarycenter(x) = QuantizedBarycenter(y)
                 /\ old_v_pos[x] < old_v_pos[y])
                => v_pos[x] < v_pos[y]

\* the stable vertices that have an edge
CoreStable == { core_edges[i][1] : i \in 1..Len(core_edges) }

\* C21: the call changes v_pos only at the moving vertices of its edges:
\* the stable vertices and the vertices without an edge keep their position
\* (no vertex is both stable and moving).
C21_CoreFrame ==
    CoreDone =>
        /\ CoreStable \cap CoreMoving = {}
        /\ DOMAIN v_pos = DOMAIN old_v_pos
        /\ \A x \in DOMAIN old_v_pos :
               x \notin CoreMoving => v_pos[x] = old_v_pos[x]

\* a call that moved a vertex and left alone a stable vertex and a vertex
\* without an edge, both at a position other than 0
C21_Witness ==
    /\ CoreDone
    /\ \E x \in CoreMoving : v_pos[x] # old_v_pos[x]
    /\ \E x \in CoreStable : old_v_pos[x] # 0
    /\ \E x \in DOMAIN old_v_pos :
           x \notin CoreStable \cup CoreMoving /\ old_v_pos[x] # 0

\* ------------------------------------------------------------------------
\* Horizontal positions
\* ------------------------------------------------------------------------

\* create_proper_graph has built v_pos and has not yet run a sweep step
BeforeFirstSweep ==
    /\ fn = "create_proper_graph"
    /\ pc = "sweep_up"
    /\ sweeps = <<>>

\* C22: before the first sweep v_pos[layer_verts[L][x]] = x for every layer L
\* and index x, so that the positions of a layer are 0..n-1 without
\* repetition; layer_verts has num_layers keys; the vertices of the graph
\* that are in no edge hold the sentinel !0.
C22_InitialPositions ==
    BeforeFirstSweep =>
        /\ num_keys(layer_verts) = num_layers
        /\ \A L \in 0..(num_keys(layer_verts) - 1) :
               LET verts == entry_values(layer_verts, L)
               IN  /\ \A x \in 1..Len(verts) : v_pos[verts[x]] = x - 1
                   /\ NoDuplicates(verts)
                   /\ { v_pos[y] : y \in LayerVerts(L) } = 0..(Len(verts) - 1)
        /\ \A x \in Verts : x \notin NonIsolated(graph) => v_pos[x] = NO_POS

\* positions just built for a graph with a vertex in no edge, a layer other
\* than layer 0 with two vertices, and a virtual vertex
C22_Witness ==
    /\ BeforeFirstSweep
    /\ \E x \in Verts : x \notin NonIsolated(graph)
    /\ \E L \in 1..(num_keys(layer_verts) - 1) :
           Len(entry_values(layer_verts, L)) >= 2
    /\ next_virt_v > nv

\* no two vertices listed in layer L hold the same position
DistinctPositions(L) ==
    \A x, y \in LayerVerts(L) : v_pos[x] = v_pos[y] => x = y

\* C23 as stated: after each crossing-minimization step and at the end of
\* create_proper_graph the vertices of one layer hold pairwise distinct
\* positions.
C23_AlwaysDistinct ==
    (ProperBuilt /\ sweeps # <<>>) =>
        \A L \in 0..(num_keys(layer_verts) - 1) : DistinctPositions(L)

\* C23, amended: the positions of one layer are pairwise distinct at the end
\* of create_proper_graph, in layer 0 after every step, and in every layer
\* that min_crossings_down has already reordered.
C23_DistinctAtEnd ==
    (ProperBuilt /\ sweeps # <<>>) =>
        /\ DistinctPositions(0)
        /\ pc = "sweep_down" =>
               \A L \in (sweep_layer + 1)..(num_keys(layer_verts) - 1) :
                   DistinctPositions(L)
        /\ pc = "done" =>
               \A L \in 0..(num_keys(layer_verts) - 1) : DistinctPositions(L)

\* the end of a run in which a min_crossings_up step had left two vertices of
\* a layer at the same position
C23_Witness ==
    /\ ProperBuilt
    /\ pc = "done"
    /\ \E L \in 1..(num_keys(layer_edges) - 1) :
           /\ Cardinality(LayerVerts(L)) >= 2
           /\ \E y \in LayerVerts(L) :
                  \A pair \in LayerEdges(L) : pair[2] # y
           /\ \E y \in LayerVerts(L) :
                  \E pair \in LayerEdges(L) : pair[2] = y

\* ------------------------------------------------------------------------
\* The work set of topo_sort_reverse
\* ------------------------------------------------------------------------

\* the vertices on the work stack
OnWorkStack == { work_stack[i].v : i \in 1..Len(work_stack) }

\* C24: inside a traversal in_work_set is true exactly for the current
\* vertex and the vertices on work_stack, and those are not visited; no
\* vertex is both visited and in the work set; between two root traversals
\* and at the return of Ok(topo_order) the stack is empty and every bit
\* false, and every vertex of topo_order is below num_verts.  These are the
\* conditions of all the assertions of the function.  (The early return of
\* Err(FoundCycle) drops the locals with the current path still marked.)
C24_WorkSet ==
    /\ pc \in {"topo_loop", "topo_err"} =>
           /\ \A x \in Verts : in_work_set[x] <=> (x = v \/ x \in OnWorkStack)
           /\ \A x \in OnWorkStack \cup {v} : ~visited[x]
    /\ pc \in {"topo_for", "topo_loop", "topo_err", "topo_ok"} =>
           \A x \in Verts : ~(visited[x] /\ in_work_set[x])
    /\ pc \in {"topo_for", "topo_ok"} =>
           /\ work_stack = <<>>
           /\ \A x \in Verts : ~in_work_set[x]
    /\ pc = "topo_ok" =>
           \A i \in 1..Len(topo_order) : topo_order[i] \in Verts

\* inside a traversal, below the root, after a vertex was emitted
C24_Witness ==
    /\ pc = "topo_loop"
    /\ Len(work_stack) >= 1
    /\ v \notin OnWorkStack
    /\ \E x \in Verts : visited[x]

\* ------------------------------------------------------------------------
\* The alias table of find_disjoint_subgraphs
\* ------------------------------------------------------------------------

\* C25: after every edge graph_alias[i] <= i for every provisional id i, so
\* that following graph_alias from any id reaches a fixed point without
\* failing `next <= leader`; and none of the assertions `next <= leader`,
\* `g != !0u32`, `output_pos[i] == output_index[i + 1]` fails.
C25_AliasBounded ==
    fn = "find_disjoint_subgraphs" =>
        /\ pc # "panic"
        /\ pc \in {"dj_edges", "dj_resolve", "dj_build", "done"} =>
               \A i \in 0..(Len(graph_alias) - 1) :
                   /\ graph_alias[i + 1] \in 0..i
                   /\ find_leader(graph_alias, i).ok
                   /\ find_leader(graph_alias, i).leader <= i

\* a finished run with three provisional ids, two of them aliases
C25_Witness ==
    /\ fn = "find_disjoint_subgraphs"
    /\ pc = "done"
    /\ Len(graph_alias) >= 3
    /\ Cardinality({ i \in 1..Len(graph_alias) : graph_alias[i] # i - 1 }) >= 2

\* ------------------------------------------------------------------------
\* The order topo_sort gives
\* ------------------------------------------------------------------------

\* depth-first search from x, which is not in out: the out-neighbours of x
\* from the k-th on, in stored order, each searched unless already in out,
\* then x itself.  Defined for acyclic graphs.
RECURSIVE DfsFrom(_, _, _, _)
DfsFrom(g, x, k, out) ==
    IF k > Len(edges_from(g, x)) THEN Append(out, x)
    ELSE LET y == edges_from(g, x)[k]
         IN  IF y \in Range(out) THEN DfsFrom(g, x, k + 1, out)
             ELSE DfsFrom(g, x, k + 1, DfsFrom(g, y, 1, out))

\* the roots from s on in ascending order, skipping the vertices already in
\* out and the vertices without out-edges
RECURSIVE DfsRoots(_, _, _)
DfsRoots(g, s, out) ==
    IF s >= num_verts(g) THEN out
    ELSE IF s \in Range(out) \/ edges_from(g, s) = <<>>
    THEN DfsRoots(g, s + 1, out)
    ELSE DfsRoots(g, s + 1, DfsFrom(g, s, 1, out))

PostOrder(g) == DfsRoots(g, 0, <<>>)

TopoSortOk == fn = "topo_sort" /\ pc = "done" /\ result = "Ok"

\* C26: the order topo_sort returns is the reverse of the depth-first
\* post-order with roots tried in ascending index and out-neighbours followed
\* in stored order; the tree 0-1-2, 0-3-4, 0-5-6 gives [0, 5, 6, 3, 4, 1, 2]
\* and a linear path gives the path.
C26_TopoSortOrder ==
    TopoSortOk =>
        /\ order = Reverse(PostOrder(graph))
        /\ graph = TopoTree => order = <<0, 5, 6, 3, 4, 1, 2>>
        /\ graph = TopoPath => order = <<1, 2, 3, 4, 5>>
        /\ graph = TopoPathReversed => order = <<5, 4, 3, 2, 1>>

C26_Witness ==
    /\ TopoSortOk
    /\ graph = TopoTree
    /\ order = <<0, 5, 6, 3, 4, 1, 2>>

\* ------------------------------------------------------------------------
\* The number of crossings
\* ------------------------------------------------------------------------

\* C27 as stated: the number of crossings counted after a sweep is less than
\* or equal to the number counted before it.
C27_NeverMoreCrossings ==
    /\ Len(num_crossings) >= 2 => num_crossings[2] <= num_crossings[1]
    /\ Len(num_crossings) >= 4 => num_crossings[4] <= num_crossings[3]

\* The layer the latest step of a sweep has repositioned: the step recorded
\* as <<"up", L>> moves layer L, the one recorded as <<"down", L>> moves
\* layer L + 1.
LastMovedLayer(sw) ==
    IF sw[Len(sw)][1] = "up" THEN sw[Len(sw)][2] ELSE sw[Len(sw)][2] + 1

\* The boundaries (keys of layer_edges) that do not touch layer m.
BoundariesAwayFrom(m) ==
    { k \in 0..(num_keys(layer_edges) - 1) : k # m /\ k # m - 1 }

BoundaryCrossings(vp, k) ==
    count_crossings(vp, entry_values(layer_edges, k),
                    Len(entry_values(layer_edges, k)))

\* C27 amended: a sweep can raise the total; what a step of either sweep
\* leaves as it was is the number of crossings of every layer boundary that
\* does not touch the layer the step repositions.
C27_OtherBoundariesKept ==
    [][sweeps' # sweeps =>
          \A k \in BoundariesAwayFrom(LastMovedLayer(sweeps')) :
              BoundaryCrossings(v_pos', k) = BoundaryCrossings(v_pos, k)]_vars

C27_Witness ==
    /\ sweeps # <<>>
    /\ \E k \in BoundariesAwayFrom(LastMovedLayer(sweeps)) :
           BoundaryCrossings(v_pos, k) >= 1

\* ------------------------------------------------------------------------
\* The priority queues
\* ------------------------------------------------------------------------

PqRunning == fn \in PqImpls

\* C28: in both priority queues, after any sequence of insert and remove
\* calls no assertion of check() has failed, the array is a max-heap, and
\* remove has returned the greatest item held, or None on an empty queue.
C28_ValidMaxHeap ==
    PqRunning =>
        /\ ~pq_panic
        /\ check(pq)
        /\ pq_op = "remove" =>
               pq_ret = IF pq_before = <<>> THEN <<>>
                        ELSE <<MaxOf(Range(pq_before))>>

\* ------------------------------------------------------------------------
\* Clone for VecOption
\* ------------------------------------------------------------------------

\* C29: the clone has the length and the Some/None entries of the original,
\* its buffer and its bitmap have the same length, and len and pop give on it
\* what they give on the original.
C29_CloneSame ==
    (fn = "VecOption" /\ vo_op = "clone") =>
        /\ vo_clone.present = vec_option.present
        /\ Len(vo_clone.vec) = Len(vo_clone.present)
        /\ VecOption_len(vo_clone) = VecOption_len(vec_option)
        /\ pop(vo_clone).ok
        /\ pop(vo_clone).ret = pop(vec_option).ret

\* ------------------------------------------------------------------------
\* iter_pairs_manual
\* ------------------------------------------------------------------------

\* a table every value of which belongs to a key
NoTrailingValues(t) == t.index[Len(t.index)] = Len(t.values)

\* C30: on a RampTable without unassociated trailing values
\* iter_pairs_manual yields the sequence of (key, value) pairs that iter_pairs
\* yields.
C30_ManualSamePairs ==
    (fn = "RampTable" /\ NoTrailingValues(table)) =>
        /\ iter_pairs_manual(table).ok
        /\ iter_pairs_manual(table).pairs = iter_pairs(table)
====
